---- MODULE Spec2Model ----
(***************************************************************************)
(* CareCompanion: the coordination / aggregation and alerting core.        *)
(*                                                                         *)
(*   - EmergencyResponseAgent (src/agents/emergency_response.py)           *)
(*   - CoordinationAgent      (src/agents/coordination.py)                 *)
(*   - the domain agents the coordinator routes to                         *)
(*                                                                         *)
(* Time is a discrete clock `now`, counted in minutes.  A Python dict with *)
(* optional keys is a record whose missing keys hold the marker Absent,    *)
(* read through Get (dict.get with a default).                             *)
(*                                                                         *)
(* Three specifications share the variables:                               *)
(*   SpecEm     the Emergency Agent on its own                             *)
(*   Spec       the coordinator with the agents it routes to               *)
(*   SpecStatus _determine_overall_status over every status combination    *)
(*                                                                         *)
(* Left out: the periodic update() of the health, safety, daily and social *)
(* agents, the database rows, the LLM texts, and the context's name,       *)
(* current_activity and recommendations.                                   *)
(***************************************************************************)
EXTENDS Integers, Sequences, FiniteSets, TLC

(***************************************************************************)
(* Bounds of the model                                                     *)
(***************************************************************************)
\* last minute of the clock in the Emergency Agent specification
MaxEmTime == 5
\* handle_emergency calls offered per user
MaxEmergencyCalls == 2
\* last minute of the clock in the system specification
MaxTime == 2
\* handle_incoming_data calls offered
MaxDataCalls == 2
\* history entries the history specification lets a user accumulate
MaxHistory == 21
\* resolve_emergency calls the history specification offers per user
MaxManualResolves == 1
\* last minute of the clock in the history specification
MaxHistTime == 1

(***************************************************************************)
(* Program constants                                                       *)
(***************************************************************************)
\* emergency_response.py:158/160  minutes_since_escalation >= 5
EscalationMinutes == 5
\* emergency_response.py:132  len(self.emergency_history[user_id]) > 20
HistoryCap == 20
\* base_agent.py:41  update_interval, 60 seconds
UpdateInterval == 1

Users == {"u1"}

Absent == "<absent>"
NoTime == -1
NoEmergency == [none |-> TRUE]
\* emergency_id is None (or empty: the code tests its truth value)
NoId == <<>>

\* dict.get(key, default) on a field that may be missing
Get(v, default) == IF v = Absent THEN default ELSE v

(***************************************************************************)
(* Emergency details.  `note` stands for the rest of the dict's text.      *)
(***************************************************************************)
PlainDetails == [impact_force_level |-> Absent, impact_force |-> Absent, note |-> ""]
\* str.lower() on the strings the model uses
Lower(s) ==
    CASE s = "Critical" -> "critical"
      [] s = "High"     -> "high"
      [] s = "Medium"   -> "medium"
      [] s = "Low"      -> "low"
      [] OTHER          -> s

\* "critical" in str(details).lower()
MentionsCritical(details) ==
    \/ Lower(details.note) = "critical"
    \/ Lower(Get(details.impact_force_level, "")) = "critical"
    \/ Lower(Get(details.impact_force, "")) = "critical"

\* emergency_data of the handle_emergency calls the model offers
EmergencyInputs ==
    { [type |-> "fall",   details |-> PlainDetails, location |-> "Bathroom"],
      [type |-> "fall",   details |-> [PlainDetails EXCEPT !.impact_force_level = "high"],
       location |-> "Bathroom"],
      [type |-> "health", details |-> [PlainDetails EXCEPT !.note = "Critical"],
       location |-> "unknown"] }

VARIABLES
    now,                      \* datetime.now(), in minutes
    active_emergencies,       \* EmergencyResponseAgent.active_emergencies
    emergency_history,        \* EmergencyResponseAgent.emergency_history
    emergency_contacts,       \* EmergencyResponseAgent.emergency_contacts
    caregiver_notifications,  \* EmergencyResponseAgent.caregiver_notifications
    events,                   \* rows the Emergency Agent inserts into db "events", per user_id
    last_update,              \* EmergencyResponseAgent.last_update (BaseAgent)
    user_contexts,            \* CoordinationAgent.user_contexts
    analyzer_data,            \* what the analyzer's data files hold for each user
    health_analyses,          \* HealthMonitorAgent.health_analyses
    health_alert_history,     \* HealthMonitorAgent.user_data[u]["alert_history"]
    safety_analyses,          \* SafetyGuardianAgent.safety_analyses
    safety_alert_history,     \* SafetyGuardianAgent.user_data[u]["alert_history"]
    social_analyses,          \* SocialEngagementAgent.social_analyses
    social_alert_history,     \* SocialEngagementAgent.user_data[u]["alert_history"]
    data_calls,               \* handle_incoming_data calls made so far
    agents_set,               \* the domain agents set_agents gave the coordinator
    data_result,              \* status of what the last handle_incoming_data returned
    health_means,             \* per user: number of health rows, and the means of the
                              \* analyzer's health analysis in tenths
    personalized_thresholds,  \* HealthMonitorAgent.user_data[u]["personalized_thresholds"]
    running,                  \* app.running, the global shutdown flag
    loop_pc,                  \* per agent: where its _processing_loop task is suspended
    message_queue,            \* BaseAgent.message_queue, per agent
    handled,                  \* per agent: the messages process_message was called with
    iterations_after_exit,    \* per agent: loop iterations begun after handle_exit
    callbacks,                \* per agent: self.callbacks, the callback of each id
    callback_calls,           \* per agent: the calls of callbacks made by the loop
    time_time,                \* int(time.time()), counted from the start
    upcoming_reminders,       \* DailyAssistantAgent.user_data[u]["upcoming_reminders"]
    reminder_rows,            \* rows the Daily Assistant inserts into db "reminders"
    daily_update_result,      \* how the last DailyAssistantAgent.update() ended
    reminder_user_data,       \* DailyAssistantAgent.user_data[u]: history, max_delay, alerts
    db_tables,                \* the names of the tables in db.tables
    insert_errors,            \* db.insert calls that raised so far
    tracked_emergency         \* an active emergency with its times counted back from now

emVars == <<active_emergencies, emergency_history, emergency_contacts,
            caregiver_notifications, events>>
agentVars == <<health_analyses, health_alert_history, safety_analyses,
               safety_alert_history, social_analyses, social_alert_history>>
thVars == <<health_means, personalized_thresholds>>
loopVars == <<running, loop_pc, message_queue, handled, iterations_after_exit,
              callbacks, callback_calls, time_time>>
dailyVars == <<upcoming_reminders, reminder_rows, daily_update_result, reminder_user_data>>
dbVars == <<db_tables, insert_errors>>
coVars == <<user_contexts, analyzer_data, agentVars, data_calls, agents_set, data_result,
            thVars, tracked_emergency, dbVars, dailyVars, loopVars>>
vars == <<now, emVars, last_update, coVars>>

(***************************************************************************)
(* EmergencyResponseAgent                                                  *)
(***************************************************************************)
\* _generate_simulated_contacts
SimulatedContacts ==
    << [name |-> "Jane Smith", phone |-> "555-1234",
        priority |-> 1, notify_for |-> {"all"}],
       [name |-> "Michael Johnson", phone |-> "555-5678",
        priority |-> 2, notify_for |-> {"health", "fall"}],
       [name |-> "Dr. Robert Williams", phone |-> "555-9101",
        priority |-> 3, notify_for |-> {"health"}] >>

\* self.escalation_levels.get(str(new_level), "notify_app")
EscalationLevelsShifted(level) ==
    CASE level = 1 -> "notify_caregiver"
      [] level = 2 -> "notify_emergency_services"
      [] OTHER     -> "notify_app"
EscalationLevels(level) ==
    CASE level = 1 -> "notify_app"
      [] level = 2 -> "notify_caregiver"
      [] level = 3 -> "notify_emergency_services"
      [] OTHER     -> "notify_app"

RECURSIVE FilterSeq(_, _)
FilterSeq(s, etype) ==
    IF s = <<>> THEN <<>>
    ELSE LET c == Head(s)
             keep == CASE etype = "fall"   -> "all" \in c.notify_for \/ "fall" \in c.notify_for
                       [] etype = "health" -> "all" \in c.notify_for \/ "health" \in c.notify_for
                       [] OTHER            -> "all" \in c.notify_for
         IN (IF keep THEN <<c>> ELSE <<>>) \o FilterSeq(Tail(s), etype)

\* list.sort(key=priority): a stable sort, as an insertion sort
RECURSIVE InsertByPriority(_, _)
InsertByPriority(c, s) ==
    IF s = <<>> THEN <<c>>
    ELSE IF Head(s).priority <= c.priority
         THEN <<Head(s)>> \o InsertByPriority(c, Tail(s))
         ELSE <<c>> \o s
RECURSIVE SortByPriority(_)
SortByPriority(s) ==
    IF s = <<>> THEN <<>>
    ELSE InsertByPriority(s[Len(s)], SortByPriority(SubSeq(s, 1, Len(s) - 1)))

\* _notify_caregivers: the notification record appended for the user
CaregiverNotification(contacts, emergency, urgent, t) ==
    LET notify_contacts == SortByPriority(FilterSeq(contacts, emergency.type))
    IN [emergency_id |-> emergency.id,
        timestamp    |-> t,
        contacts     |-> [i \in 1..Len(notify_contacts) |-> notify_contacts[i].name],
        urgent       |-> urgent]

\* db.insert("events", {"user_id", "event_type", "details"}): the row, with the
\* emergency the details are about
EventRow(event_type, emergency) ==
    [event_type |-> event_type, emergency_id |-> emergency.id]

\* _escalate_emergency: the emergency after escalation to new_level
Escalated(emergency, new_level, t) ==
    [emergency EXCEPT !.escalation_level = new_level, !.last_escalation = t]

\* _escalate_emergency: the notifications it records (level -> action)
EscalationNotifications(contacts, emergency, new_level, t) ==
    IF EscalationLevels(new_level) = "notify_caregiver"
    THEN <<CaregiverNotification(contacts, Escalated(emergency, new_level, t), TRUE, t)>>
    ELSE <<>>

\* _escalate_emergency: the rows it persists (level -> action)
EscalationEvents(emergency, new_level) ==
    IF EscalationLevels(new_level) = "notify_caregiver"
    THEN <<EventRow("caregiver_notification", emergency)>>
    ELSE IF EscalationLevels(new_level) = "notify_emergency_services"
    THEN <<EventRow("emergency_services_notification", emergency)>>
    ELSE <<>>

\* _initial_emergency_response: whether the emergency is escalated at once
SeriousEmergencyFallOnly(emergency) ==
    /\ emergency.type = "fall"
    /\ Get(emergency.details.impact_force_level, "medium") = "high"
SeriousEmergency(emergency) ==
    \/ /\ emergency.type = "fall"
       /\ Get(emergency.details.impact_force_level, "medium") = "high"
    \/ /\ emergency.type = "health"
       /\ MentionsCritical(emergency.details)

\* _initial_emergency_response: the emergency it leaves, and what it records
InitialResponseEmergency(emergency, t) ==
    IF SeriousEmergency(emergency) THEN Escalated(emergency, 2, t) ELSE emergency
InitialResponseNotifications(contacts, emergency, t) ==
    <<CaregiverNotification(contacts, emergency, FALSE, t)>>
    \o (IF SeriousEmergency(emergency)
        THEN EscalationNotifications(contacts, emergency, 2, t)
        ELSE <<>>)
InitialResponseEvents(emergency) ==
    <<EventRow("caregiver_notification", emergency)>>
    \o (IF SeriousEmergency(emergency) THEN EscalationEvents(emergency, 2) ELSE <<>>)

\* handle_emergency: the record created for the call
NewEmergency(u, etype, details, location, t) ==
    [id                 |-> <<u, etype, t>>,
     user_id            |-> u,
     type               |-> etype,
     details            |-> details,
     location           |-> location,
     created_at         |-> t,
     last_escalation    |-> t,
     escalation_level   |-> 1,
     resolved           |-> FALSE,
     resolution_details |-> "none",
     resolution_time    |-> NoTime]

\* handle_emergency, same type: the new record keeps the escalation status
UpdatedInPlace(old, emergency) ==
    [emergency EXCEPT !.escalation_level = old.escalation_level,
                      !.last_escalation = old.last_escalation]

\* handle_emergency, different type: the old record as it enters the history
SupersededNoReason(old, t) ==
    [old EXCEPT !.resolved = TRUE, !.resolution_time = t]
Superseded(old, t) ==
    [old EXCEPT !.resolved = TRUE,
                !.resolution_details = "Superseded by new emergency",
                !.resolution_time = t]

\* handle_emergency: the emergency installed as active, before the initial response
InstalledEmergency(old, emergency) ==
    IF old # NoEmergency /\ old.type = emergency.type
    THEN UpdatedInPlace(old, emergency)
    ELSE emergency

\* handle_emergency: the history after the call
HistoryAfterHandleUnresolved(history, old, emergency, t) ==
    IF old # NoEmergency /\ old.type # emergency.type
    THEN Append(history, old)
    ELSE history
HistoryAfterHandle(history, old, emergency, t) ==
    IF old # NoEmergency /\ old.type # emergency.type
    THEN Append(history, Superseded(old, t))
    ELSE history

\* handle_emergency(emergency_data) for user u: the agent's state after the call
EmAfterHandle(em, u, etype, details, location, t) ==
    LET old       == em.active[u]
        emergency == NewEmergency(u, etype, details, location, t)
        installed == InstalledEmergency(old, emergency)
    IN [active   |-> [em.active EXCEPT ![u] = InitialResponseEmergency(installed, t)],
        history  |-> [em.history EXCEPT
                        ![u] = HistoryAfterHandle(em.history[u], old, emergency, t)],
        contacts |-> em.contacts,
        notifications |-> [em.notifications EXCEPT
                        ![u] = @ \o InitialResponseNotifications(em.contacts[u], installed, t)],
        events   |-> [em.events EXCEPT
                        ![u] = @ \o <<EventRow("emergency_created", installed)>>
                                 \o InitialResponseEvents(installed)]]

EmState == [active        |-> active_emergencies,
            history       |-> emergency_history,
            contacts      |-> emergency_contacts,
            notifications |-> caregiver_notifications,
            events        |-> events]

SetEm(em) ==
    /\ active_emergencies' = em.active
    /\ emergency_history' = em.history
    /\ emergency_contacts' = em.contacts
    /\ caregiver_notifications' = em.notifications
    /\ events' = em.events

\* handle_emergency calls made so far for the user: each records exactly one
\* caregiver notification that is not urgent
EmergencyCalls(u) ==
    Cardinality({i \in 1..Len(caregiver_notifications[u]) :
                    ~caregiver_notifications[u][i].urgent})

\* process_message({"type": "emergency", ...}) -> handle_emergency
\* calls of db.insert that raise, at most
MaxInsertErrors == 2

\* db.insert raises when the table is not there; handle_emergency does not
\* catch it, so the call ends at the insert of the emergency_created row:
\* after the emergency was installed, before _initial_emergency_response
HandleEmergencyCall(u, etype, details, location) ==
    IF "events" \in db_tables
    THEN /\ SetEm(EmAfterHandle(EmState, u, etype, details, location, now))
         /\ UNCHANGED <<now, last_update, coVars>>
    ELSE LET old == active_emergencies[u]
             emergency == NewEmergency(u, etype, details, location, now)
         IN /\ insert_errors < MaxInsertErrors
            /\ active_emergencies' =
                  [active_emergencies EXCEPT ![u] = InstalledEmergency(old, emergency)]
            /\ emergency_history' =
                  [emergency_history EXCEPT
                     ![u] = HistoryAfterHandle(@, old, emergency, now)]
            /\ insert_errors' = insert_errors + 1
            /\ UNCHANGED <<now, emergency_contacts, caregiver_notifications, events,
                           last_update, user_contexts, analyzer_data, agentVars,
                           data_calls, agents_set, data_result, thVars, tracked_emergency, dailyVars,
                           loopVars, db_tables>>

HandleEmergency(u, etype, details, location) ==
    /\ EmergencyCalls(u) < MaxEmergencyCalls
    /\ HandleEmergencyCall(u, etype, details, location)

\* _check_emergency_escalation: the level the tick escalates to (0: none)
EscalationDueLate(emergency, t) ==
    LET minutes_since_escalation == t - emergency.last_escalation
    IN IF emergency.escalation_level = 1 /\ minutes_since_escalation > EscalationMinutes THEN 2
       ELSE IF emergency.escalation_level = 2 /\ minutes_since_escalation > EscalationMinutes THEN 3
       ELSE 0
EscalationDue(emergency, t) ==
    LET minutes_since_escalation == t - emergency.last_escalation
    IN IF emergency.escalation_level = 1 /\ minutes_since_escalation >= EscalationMinutes THEN 2
       ELSE IF emergency.escalation_level = 2 /\ minutes_since_escalation >= EscalationMinutes THEN 3
       ELSE 0

\* self.emergency_history[user_id][-20:]
FirstN(s, n) == IF Len(s) > n THEN SubSeq(s, 1, n) ELSE s
LastN(s, n) == IF Len(s) > n THEN SubSeq(s, Len(s) - n + 1, Len(s)) ELSE s

\* update(): one user's slot, history and notifications after the tick
EmAfterUpdate(em, t) ==
    LET resolvedUsers == {u \in Users : em.active[u] # NoEmergency /\ em.active[u].resolved}
        dueUsers == {u \in Users : /\ em.active[u] # NoEmergency
                                   /\ ~em.active[u].resolved
                                   /\ EscalationDue(em.active[u], t) # 0}
    IN [active   |-> [u \in Users |->
                        IF u \in resolvedUsers THEN NoEmergency
                        ELSE IF u \in dueUsers
                             THEN Escalated(em.active[u], EscalationDue(em.active[u], t), t)
                             ELSE em.active[u]],
        history  |-> [u \in Users |->
                        IF u \in resolvedUsers
                        THEN LastN(Append(em.history[u], em.active[u]), HistoryCap)
                        ELSE em.history[u]],
        contacts |-> em.contacts,
        notifications |-> [u \in Users |->
                        IF u \in dueUsers
                        THEN em.notifications[u]
                             \o EscalationNotifications(em.contacts[u], em.active[u],
                                                        EscalationDue(em.active[u], t), t)
                        ELSE em.notifications[u]],
        events   |-> [u \in Users |->
                        IF u \in dueUsers
                        THEN em.events[u]
                             \o EscalationEvents(em.active[u], EscalationDue(em.active[u], t))
                        ELSE em.events[u]]]

\* BaseAgent._processing_loop: the periodic step, due once update_interval
\* has passed, runs EmergencyResponseAgent.update() and stamps last_update
EmUpdate ==
    /\ now - last_update >= UpdateInterval
    /\ SetEm(EmAfterUpdate(EmState, now))
    /\ last_update' = now
    /\ UNCHANGED <<now, coVars>>

\* resolve_emergency: the soft error cases
ResolveRefusedOnlyWhenIdle(em, u, emergency_id) ==
    em.active[u] = NoEmergency
ResolveRefused(em, u, emergency_id) ==
    \/ em.active[u] = NoEmergency
    \/ emergency_id # NoId /\ em.active[u].id # emergency_id

\* resolve_emergency: the record moved to the history
ManuallyResolvedUntimed(emergency, t) ==
    [emergency EXCEPT !.resolved = TRUE,
                      !.resolution_details = "Manually resolved"]
ManuallyResolved(emergency, t) ==
    [emergency EXCEPT !.resolved = TRUE,
                      !.resolution_time = t,
                      !.resolution_details = "Manually resolved"]

EmAfterResolve(em, u, emergency_id, t) ==
    IF ResolveRefused(em, u, emergency_id) THEN em
    ELSE [em EXCEPT !.history[u] = Append(@, ManuallyResolved(em.active[u], t)),
                    !.active[u] = NoEmergency,
                    !.events[u] = Append(@, EventRow("emergency_resolved", em.active[u]))]

\* resolve_emergency: the status it returns
ResolveStatus(em, u, emergency_id) ==
    IF ResolveRefused(em, u, emergency_id) THEN "error" ELSE "success"

\* update_emergency_contacts: contact["priority"] = 999 when the key is missing
DefaultPriority == 999
\* a contact dict without the key "priority" / "notify_for"
NoPriority == -1
NoList == {Absent}

\* update_emergency_contacts: a contact is kept if it has a name and a phone,
\* and gets the missing fields
RECURSIVE ValidContacts(_)
ValidContacts(contacts) ==
    IF contacts = <<>> THEN <<>>
    ELSE LET contact == Head(contacts)
         IN (IF contact.name # Absent /\ contact.phone # Absent
             THEN <<[contact EXCEPT
                       !.priority   = IF @ = NoPriority THEN DefaultPriority ELSE @,
                       !.notify_for = IF @ = NoList THEN {"all"} ELSE @]>>
             ELSE <<>>)
            \o ValidContacts(Tail(contacts))

\* update_emergency_contacts: the list installed for the user
update_emergency_contacts(contacts) == SortByPriority(ValidContacts(contacts))

\* the contact lists the model installs
ContactLists ==
    LET ann == [name |-> "Ann", phone |-> "555-0001", priority |-> 2, notify_for |-> {"fall"}]
        bob == [name |-> "Bob", phone |-> "555-0002", priority |-> 1, notify_for |-> {"safety"}]
        cy  == [name |-> "Cy",  phone |-> "555-0003", priority |-> NoPriority,
                notify_for |-> NoList]
        dee == [name |-> "Dee", phone |-> Absent, priority |-> 1, notify_for |-> {"all"}]
        eve == [name |-> "Eve", phone |-> "555-0005", priority |-> 2,
                notify_for |-> {"health", "all"}]
    IN { <<cy, ann, eve, dee>>, <<ann, bob, cy>>, <<>> }

\* update_emergency_contacts(user_id, contacts)
UpdateEmergencyContacts(u, contacts) ==
    /\ emergency_contacts' = [emergency_contacts EXCEPT
                                ![u] = update_emergency_contacts(contacts)]
    /\ UNCHANGED <<now, active_emergencies, emergency_history, caregiver_notifications,
                   events, last_update, coVars>>

\* emergency ids a caller may name: none, the active one, a stale one
ResolveIds(u) ==
    {NoId, <<u, "fall", 0>>}
    \cup (IF active_emergencies[u] # NoEmergency THEN {active_emergencies[u].id} ELSE {})

\* process_message({"type": "resolve_emergency", ...}) -> resolve_emergency
ResolveEmergency(u, emergency_id) ==
    /\ SetEm(EmAfterResolve(EmState, u, emergency_id, now))
    /\ UNCHANGED <<now, last_update, coVars>>

\* the clock of the Emergency Agent specification advances by one minute
EmTick ==
    /\ now < MaxEmTime
    /\ now' = now + 1
    /\ UNCHANGED <<emVars, last_update, coVars>>

(***************************************************************************)
(* The analyzer (src/models/analytics.py): what its data files hold for a  *)
(* user, and the analyses it derives.  The profiles of the model hold      *)
(* fewer than five rows per user, so the Health Monitor keeps the default  *)
(* thresholds and the Safety Guardian's location history stays short.      *)
(***************************************************************************)
\* a dict key that is not there (user_contexts, the agents' analysis caches)
Missing == [missing |-> TRUE]
\* get_user_*_data returns None: no rows for the user
NoRows == [rows |-> "none"]
\* {"status": "error", ...}
NoAnalysis == [status |-> "error"]
\* a metric that is None
NoValue == -1

HealthRows(concerns, hr, systolic, diastolic, glucose, oxygen) ==
    [concerns |-> concerns, heart_rate |-> hr, systolic |-> systolic,
     diastolic |-> diastolic, glucose |-> glucose, oxygen |-> oxygen]
SafetyRows(concerns, location, no_movement_high, walking_low) ==
    [concerns |-> concerns, current_location |-> location,
     no_movement_high |-> no_movement_high, walking_low |-> walking_low]
ReminderRows(concerns) == [concerns |-> concerns]

\* the users the analyzer may know: none of the files has rows; all readings
\* in range; two health flags raised on the latest row
AnalyzerProfiles ==
    { [health |-> NoRows, safety |-> NoRows, reminders |-> NoRows],
      [health    |-> HealthRows(0, 72, 120, 80, 100, 98),
       safety    |-> SafetyRows(0, "Living Room", FALSE, FALSE),
       reminders |-> ReminderRows(0)],
      [health    |-> HealthRows(2, 72, 165, 85, 150, 98),
       safety    |-> SafetyRows(0, "Living Room", FALSE, TRUE),
       reminders |-> ReminderRows(0)] }

\* analyze_*: the status from the number of concerns
StatusOfConcerns(n) ==
    IF n = 0 THEN "normal" ELSE IF n = 1 THEN "attention" ELSE "alert"

\* analyze_health_metrics
analyze_health_metrics(profile) ==
    IF profile.health = NoRows THEN NoAnalysis
    ELSE [status        |-> "success",
          health_status |-> StatusOfConcerns(profile.health.concerns),
          concerns      |-> profile.health.concerns,
          heart_rate    |-> profile.health.heart_rate,
          systolic      |-> profile.health.systolic,
          diastolic     |-> profile.health.diastolic,
          glucose       |-> profile.health.glucose,
          oxygen        |-> profile.health.oxygen]

\* analyze_safety_data
analyze_safety_data(profile) ==
    IF profile.safety = NoRows THEN NoAnalysis
    ELSE [status           |-> "success",
          safety_status    |-> StatusOfConcerns(profile.safety.concerns),
          concerns         |-> profile.safety.concerns,
          current_location |-> profile.safety.current_location,
          movement_counts  |-> TRUE,
          no_movement_high |-> profile.safety.no_movement_high,
          walking_low      |-> profile.safety.walking_low]

\* analyze_reminder_data
analyze_reminder_data(profile) ==
    IF profile.reminders = NoRows THEN NoAnalysis
    ELSE [status          |-> "success",
          reminder_status |-> StatusOfConcerns(profile.reminders.concerns),
          concerns        |-> profile.reminders.concerns]

\* get_comprehensive_user_status: overall_status from the total of concerns
get_comprehensive_user_status(profile) ==
    LET health_analysis   == analyze_health_metrics(profile)
        safety_analysis   == analyze_safety_data(profile)
        reminder_analysis == analyze_reminder_data(profile)
        Concerns(a)       == IF a.status = "success" THEN a.concerns ELSE 0
        overall_concerns  == Concerns(health_analysis) + Concerns(safety_analysis)
                             + Concerns(reminder_analysis)
    IN [health    |-> health_analysis,
        safety    |-> safety_analysis,
        reminders |-> reminder_analysis,
        overall_status |-> IF overall_concerns = 0 THEN "normal"
                           ELSE IF overall_concerns <= 2 THEN "attention"
                           ELSE "alert"]

(***************************************************************************)
(* Alerts.  One record shape for the alert dicts of all agents; a key an   *)
(* agent does not write holds NoValue or Absent.  No agent writes an "id". *)
(***************************************************************************)
HealthAlert(t, level, type, value, threshold) ==
    [timestamp |-> t, level |-> level, type |-> type, value |-> value,
     threshold |-> threshold, location |-> Absent, impact_force |-> Absent]
SafetyAlert(t, level, type, location, impact_force) ==
    [timestamp |-> t, level |-> level, type |-> type, value |-> NoValue,
     threshold |-> NoValue, location |-> location, impact_force |-> impact_force]
SocialAlert(t, level, type) ==
    [timestamp |-> t, level |-> level, type |-> type, value |-> NoValue,
     threshold |-> NoValue, location |-> Absent, impact_force |-> Absent]

\* the alerts of a result with level "urgent"
RECURSIVE UrgentAlerts(_)
UrgentAlerts(alerts) ==
    IF alerts = <<>> THEN <<>>
    ELSE (IF Head(alerts).level = "urgent" THEN <<Head(alerts)>> ELSE <<>>)
         \o UrgentAlerts(Tail(alerts))

\* alert in context["alerts"]
AlertInNever(alert, list) == FALSE
AlertIn(alert, list) == \E i \in 1..Len(list) : list[i] = alert

\* for alert in alerts: if alert not in context["alerts"]: append
RECURSIVE MergeAlerts(_, _)
MergeAlerts(list, alerts) ==
    IF alerts = <<>> THEN list
    ELSE MergeAlerts(IF AlertIn(Head(alerts), list) THEN list
                     ELSE Append(list, Head(alerts)),
                     Tail(alerts))

(***************************************************************************)
(* HealthMonitorAgent (src/agents/health_monitor.py)                       *)
(***************************************************************************)
\* _get_default_thresholds
DefaultThresholds ==
    [heart_rate               |-> [min |-> 60, max |-> 100],
     blood_pressure_systolic  |-> [min |-> 90, max |-> 140],
     blood_pressure_diastolic |-> [min |-> 60, max |-> 90],
     glucose                  |-> [min |-> 70, max |-> 140],
     oxygen                   |-> [min |-> 95, max |-> 100]]

\* int(x) of a float given in tenths: truncation towards zero
IntOfTenths(x) == IF x >= 0 THEN x \div 10 ELSE -((-x) \div 10)

\* Python's max(a, b) and min(a, b)
PyMax(a, b) == IF a >= b THEN a ELSE b
PyMinFirst(a, b) == a
PyMin(a, b) == IF a <= b THEN a ELSE b

\* thresholds are personalized from 5 health rows on
MinHistory == 5

\* a user without health rows: nothing to personalize from
NoMeans == [samples |-> 0, heart_rate |-> NoValue, mean_systolic |-> NoValue,
            mean_diastolic |-> NoValue, glucose |-> NoValue, oxygen |-> NoValue]

\* _calculate_personalized_thresholds.  means: the means of the analysis in
\* tenths, NoValue for a mean that is None; a blood-pressure mean that is
\* None or 0 leaves the default
calculate_personalized_thresholds(means) ==
    LET personalized == DefaultThresholds
        Falsy(mean) == mean = NoValue \/ mean = 0
    IN IF means.samples >= MinHistory
       THEN [heart_rate |->
                [min |-> PyMax(IntOfTenths(means.heart_rate - 150), 50),
                 max |-> PyMin(IntOfTenths(means.heart_rate + 150), 150)],
             blood_pressure_systolic |->
                IF Falsy(means.mean_systolic) THEN personalized.blood_pressure_systolic
                ELSE [min |-> PyMax(IntOfTenths(means.mean_systolic - 150), 85),
                      max |-> PyMin(IntOfTenths(means.mean_systolic + 150), 160)],
             blood_pressure_diastolic |->
                IF Falsy(means.mean_diastolic) THEN personalized.blood_pressure_diastolic
                ELSE [min |-> PyMax(IntOfTenths(means.mean_diastolic - 100), 50),
                      max |-> PyMin(IntOfTenths(means.mean_diastolic + 100), 100)],
             glucose |->
                [min |-> PyMax(IntOfTenths(means.glucose - 200), 65),
                 max |-> PyMin(IntOfTenths(means.glucose + 200), 180)],
             oxygen |->
                [min |-> PyMax(IntOfTenths(means.oxygen - 30), 90),
                 max |-> 100]]
       ELSE personalized

\* _initialize_user_data, once the analysis has succeeded: the thresholds
\* of the user are calculated and stored
InitializeUserData(u) ==
    /\ personalized_thresholds' =
          [personalized_thresholds EXCEPT
             ![u] = calculate_personalized_thresholds(health_means[u])]
    /\ UNCHANGED <<now, emVars, last_update, user_contexts, analyzer_data, agentVars,
                   data_calls, agents_set, data_result, health_means, loopVars,
                   dailyVars, dbVars, tracked_emergency>>

\* len(alert_history) is cut to the last 20 (health, safety) or 10 (social)
AlertHistoryCap == 20
SocialAlertHistoryCap == 10
\* get_*_status reports alert_history[-5:]
RecentAlerts == 5

\* _generate_health_alerts.  A metric that is None raises a TypeError at its
\* comparison; the handler returns the alerts collected until then.
generate_health_alerts(thresholds, analysis, t) ==
    LET hr_value == analysis.heart_rate
        systolic == analysis.systolic
        diastolic == analysis.diastolic
        glucose_value == analysis.glucose
        oxygen_value == analysis.oxygen
        hr == IF hr_value < thresholds.heart_rate.min
              THEN <<HealthAlert(t, "warning", "heart_rate_low", hr_value,
                                 thresholds.heart_rate.min)>>
              ELSE IF hr_value > thresholds.heart_rate.max
              THEN <<HealthAlert(t, "warning", "heart_rate_high", hr_value,
                                 thresholds.heart_rate.max)>>
              ELSE <<>>
        sys == IF systolic < thresholds.blood_pressure_systolic.min
               THEN <<HealthAlert(t, "warning", "blood_pressure_systolic_low", systolic,
                                  thresholds.blood_pressure_systolic.min)>>
               ELSE IF systolic > thresholds.blood_pressure_systolic.max
               THEN <<HealthAlert(t, IF systolic < 160 THEN "warning" ELSE "urgent",
                                  "blood_pressure_systolic_high", systolic,
                                  thresholds.blood_pressure_systolic.max)>>
               ELSE <<>>
        dia == IF diastolic < thresholds.blood_pressure_diastolic.min
               THEN <<HealthAlert(t, "warning", "blood_pressure_diastolic_low", diastolic,
                                  thresholds.blood_pressure_diastolic.min)>>
               ELSE IF diastolic > thresholds.blood_pressure_diastolic.max
               THEN <<HealthAlert(t, IF diastolic < 100 THEN "warning" ELSE "urgent",
                                  "blood_pressure_diastolic_high", diastolic,
                                  thresholds.blood_pressure_diastolic.max)>>
               ELSE <<>>
        bp == IF systolic # NoValue /\ systolic # 0 /\ diastolic # NoValue /\ diastolic # 0
              THEN sys \o dia ELSE <<>>
        gl == IF glucose_value < thresholds.glucose.min
              THEN <<HealthAlert(t, IF glucose_value > 60 THEN "warning" ELSE "urgent",
                                 "glucose_low", glucose_value, thresholds.glucose.min)>>
              ELSE IF glucose_value > thresholds.glucose.max
              THEN <<HealthAlert(t, IF glucose_value < 180 THEN "warning" ELSE "urgent",
                                 "glucose_high", glucose_value, thresholds.glucose.max)>>
              ELSE <<>>
        ox == IF oxygen_value < thresholds.oxygen.min
              THEN <<HealthAlert(t, IF oxygen_value > 92 THEN "warning" ELSE "urgent",
                                 "oxygen_low", oxygen_value, thresholds.oxygen.min)>>
              ELSE <<>>
    IN IF hr_value = NoValue THEN <<>>
       ELSE IF glucose_value = NoValue THEN hr \o bp
       ELSE IF oxygen_value = NoValue THEN hr \o bp \o gl
       ELSE hr \o bp \o gl \o ox

\* _analyze_health_data: the analyzer's analysis, or one built from the reading
analyze_health_data(profile, health_data) ==
    LET analysis == analyze_health_metrics(profile)
    IN IF analysis.status # "success"
       THEN [status        |-> "success",
             health_status |-> "normal",
             concerns      |-> 0,
             heart_rate    |-> health_data.heart_rate,
             systolic      |-> NoValue,
             diastolic     |-> NoValue,
             glucose       |-> health_data.glucose,
             oxygen        |-> health_data.oxygen]
       ELSE analysis

\* process_health_data: the result it returns
process_health_data(profile, health_data, t) ==
    LET analysis == analyze_health_data(profile, health_data)
    IN [status   |-> "success",
        analysis |-> analysis,
        alerts   |-> generate_health_alerts(DefaultThresholds, analysis, t)]

\* get_health_status: the result, and the analysis cache it leaves
get_health_status(cache, alert_history, profile) ==
    LET analysis == IF cache = Missing THEN analyze_health_metrics(profile) ELSE cache
    IN IF analysis.status = "success"
       THEN [status |-> "success", analysis |-> analysis,
             alerts |-> LastN(alert_history, RecentAlerts), cache |-> analysis]
       ELSE [status |-> "error", analysis |-> NoAnalysis, alerts |-> <<>>, cache |-> cache]

\* the health readings the model offers: in range; glucose at the urgent
\* cut-off; a fast heart rate with high glucose and low oxygen
HealthReadings ==
    { [heart_rate |-> 72,  glucose |-> 100, oxygen |-> 98],
      [heart_rate |-> 72,  glucose |-> 60,  oxygen |-> 98],
      [heart_rate |-> 110, glucose |-> 185, oxygen |-> 91] }

(***************************************************************************)
(* SafetyGuardianAgent (src/agents/safety_guardian.py)                     *)
(***************************************************************************)
\* _analyze_safety_data: the analyzer's analysis, or one built from the reading
analyze_safety_reading(profile, safety_data) ==
    LET analysis == analyze_safety_data(profile)
    IN IF analysis.status # "success"
       THEN [status           |-> "success",
             safety_status    |-> "normal",
             concerns         |-> 0,
             current_location |-> Get(safety_data.location, "unknown"),
             movement_counts  |-> FALSE,
             no_movement_high |-> FALSE,
             walking_low      |-> FALSE]
       ELSE analysis

\* _generate_safety_alerts
generate_safety_alerts(safety_data, analysis, t) ==
    (IF Get(safety_data.fall_detected, "No") = "Yes"
     THEN <<SafetyAlert(t, "urgent", "fall_detected", safety_data.location,
                        Get(safety_data.impact_force, "-"))>>
     ELSE <<>>)
    \o (IF analysis.movement_counts /\ analysis.no_movement_high
        THEN <<SafetyAlert(t, "warning", "excessive_inactivity_pattern", Absent, Absent)>>
        ELSE <<>>)
    \o (IF analysis.movement_counts /\ analysis.walking_low
        THEN <<SafetyAlert(t, "info", "limited_walking", Absent, Absent)>>
        ELSE <<>>)

\* process_safety_data: the result it returns
process_safety_data(profile, safety_data, t) ==
    LET analysis == analyze_safety_reading(profile, safety_data)
        alerts   == generate_safety_alerts(safety_data, analysis, t)
        is_fall_detected == Get(safety_data.fall_detected, "No") = "Yes"
    IN [status    |-> "success",
        analysis  |-> analysis,
        alerts    |-> alerts,
        emergency |-> is_fall_detected
                      \/ \E i \in 1..Len(alerts) : alerts[i].level = "urgent"]

\* get_safety_status: the result, and the analysis cache it leaves
get_safety_status(cache, alert_history, profile) ==
    LET analysis == IF cache = Missing THEN analyze_safety_data(profile) ELSE cache
    IN IF analysis.status = "success"
       THEN [status |-> "success", analysis |-> analysis,
             alerts |-> LastN(alert_history, RecentAlerts), cache |-> analysis]
       ELSE [status |-> "error", analysis |-> NoAnalysis, alerts |-> <<>>, cache |-> cache]

\* the safety readings the model offers
SafetyReadings ==
    { [fall_detected |-> "No",  location |-> "Bedroom",  impact_force |-> Absent,
       impact_force_level |-> Absent],
      [fall_detected |-> "Yes", location |-> "Bathroom", impact_force |-> "High",
       impact_force_level |-> Absent] }

(***************************************************************************)
(* DailyAssistantAgent (src/agents/daily_assistant.py)                     *)
(***************************************************************************)
\* process_reminder_data: "analysis" is None unless the analyzer succeeded
process_reminder_data(profile) ==
    LET analysis == analyze_reminder_data(profile)
    IN [status |-> "success", analysis |-> analysis]

\* get_reminder_status
get_reminder_status(profile) ==
    LET analysis == analyze_reminder_data(profile)
    IN [status |-> analysis.status, analysis |-> analysis]

(***************************************************************************)
(* SocialEngagementAgent (src/agents/social_engagement.py).  The agent     *)
(* draws a user's interaction history at random; what the analysis of that *)
(* history comes to is the `outcome` of a social reading.                  *)
(***************************************************************************)
SocialOutcomes == {"normal", "alert", "error"}
\* and a history whose last interaction lies more than twice the isolation
\* threshold back
IsolationOutcomes == SocialOutcomes \cup {"isolated"}

\* _analyze_social_data for the drawn history
analyze_social_data(outcome) ==
    IF outcome = "error" THEN NoAnalysis
    ELSE [status |-> "success",
          social_status |-> IF outcome = "isolated" THEN "alert" ELSE outcome]

\* _check_social_isolation
check_social_isolation(outcome, t) ==
    IF outcome = "alert" THEN <<SocialAlert(t, "warning", "social_isolation")>>
    ELSE IF outcome = "isolated" THEN <<SocialAlert(t, "urgent", "social_isolation")>>
    ELSE <<>>

\* get_social_status: an error without a cached analysis; else whatever is cached
get_social_status(cache, alert_history) ==
    IF cache = Missing
    THEN [status |-> "error", social_status |-> "unknown", alerts |-> <<>>]
    ELSE [status |-> "success",
          social_status |-> IF cache.status = "success" THEN cache.social_status
                            ELSE "unknown",
          alerts |-> LastN(alert_history, RecentAlerts)]

(***************************************************************************)
(* CoordinationAgent (src/agents/coordination.py).  The Emergency Agent is *)
(* always set; agents_set holds the domain agents that are (all four,      *)
(* except under SpecData).  Of a user's context the model keeps the        *)
(* statuses, the location, the alert list and last_update.                 *)
(***************************************************************************)
\* the staleness bound of update() and get_user_status: 60 seconds
ContextMaxAge == 1

\* _determine_overall_status
determine_overall_status_attention_first(context) ==
    LET statuses == {context.health_status, context.safety_status,
                     context.reminder_status, context.social_status}
    IN IF context.emergency_status # "none" THEN "emergency"
       ELSE IF "attention" \in statuses THEN "attention"
       ELSE IF "alert" \in statuses THEN "alert"
       ELSE IF \A status \in statuses : status # "unknown" => status = "normal"
            THEN "normal"
       ELSE "unknown"
determine_overall_status_needing_data(context) ==
    LET statuses == {context.health_status, context.safety_status,
                     context.reminder_status, context.social_status}
    IN IF context.emergency_status # "none" THEN "emergency"
       ELSE IF "alert" \in statuses THEN "alert"
       ELSE IF "attention" \in statuses THEN "attention"
       ELSE IF "normal" \in statuses /\ statuses \subseteq {"normal", "unknown"}
            THEN "normal"
       ELSE "unknown"
determine_overall_status(context) ==
    LET statuses == {context.health_status, context.safety_status,
                     context.reminder_status, context.social_status}
    IN IF context.emergency_status # "none" THEN "emergency"
       ELSE IF "alert" \in statuses THEN "alert"
       ELSE IF "attention" \in statuses THEN "attention"
       ELSE IF \A status \in statuses : status # "unknown" => status = "normal"
            THEN "normal"
       ELSE "unknown"

\* _initialize_user_context
initialize_user_context(profile, t) ==
    LET status == get_comprehensive_user_status(profile)
    IN [health_status    |-> IF status.health.status = "success"
                             THEN status.health.health_status ELSE "unknown",
        safety_status    |-> IF status.safety.status = "success"
                             THEN status.safety.safety_status ELSE "unknown",
        reminder_status  |-> IF status.reminders.status = "success"
                             THEN status.reminders.reminder_status ELSE "unknown",
        social_status    |-> "unknown",
        emergency_status |-> "none",
        overall_status   |-> status.overall_status,
        current_location |-> IF status.safety.status = "success"
                             THEN status.safety.current_location ELSE "unknown",
        alerts           |-> <<>>,
        last_update      |-> t]

\* if user_id not in self.user_contexts: await self._initialize_user_context
ContextOf(contexts, profile, u, t) ==
    IF contexts[u] = Missing THEN initialize_user_context(profile, t) ELSE contexts[u]

\* overall_status = _determine_overall_status(user_id); last_update = now
Restamped(context, t) ==
    [context EXCEPT !.overall_status = determine_overall_status(context),
                    !.last_update = t]

\* EmergencyResponseAgent.process_message, type "alert": the emergency type
AlertEmergencyTypeUnknown(alert) == "unknown"
AlertEmergencyType(alert) ==
    IF alert.type \in {"fall_detected"} THEN "fall"
    ELSE IF alert.type \in {"heart_rate_low", "heart_rate_high",
                            "blood_pressure_systolic_low", "blood_pressure_systolic_high",
                            "blood_pressure_diastolic_low", "blood_pressure_diastolic_high",
                            "glucose_low", "glucose_high", "oxygen_low"}
    THEN "health"
    ELSE "unknown"

\* EmergencyResponseAgent.process_message, type "alert": the details
AlertEmergencyDetails(alert) ==
    CASE AlertEmergencyType(alert) = "fall" ->
            [PlainDetails EXCEPT !.impact_force_level = Get(alert.impact_force, "medium")]
      [] AlertEmergencyType(alert) = "health" ->
            [PlainDetails EXCEPT !.note = alert.type]
      [] OTHER -> PlainDetails

\* _process_health_data: every urgent alert goes to the Emergency Agent as an
\* "alert" message, in order
RECURSIVE ForwardAlerts(_, _, _, _, _)
ForwardAlerts(em, u, alerts, context, t) ==
    IF alerts = <<>> THEN em
    ELSE ForwardAlerts(EmAfterHandle(em, u, AlertEmergencyType(Head(alerts)),
                                     AlertEmergencyDetails(Head(alerts)),
                                     context.current_location, t),
                       u, Tail(alerts), context, t)

\* _process_safety_data: the emergency_data forwarded for the reading
SafetyEmergencyData(safety_data) ==
    [type     |-> IF Get(safety_data.fall_detected, "No") = "Yes" THEN "fall" ELSE "safety",
     details  |-> [impact_force_level |-> safety_data.impact_force_level,
                   impact_force       |-> safety_data.impact_force,
                   note               |-> ""],
     location |-> Get(safety_data.location, "unknown")]

\* _process_health_data
ProcessHealthData(u, context, health_data) ==
    LET result == process_health_data(analyzer_data[u], health_data, now)
        merged == [context EXCEPT !.health_status = result.analysis.health_status,
                                  !.alerts = MergeAlerts(@, result.alerts)]
    IN /\ user_contexts' = [user_contexts EXCEPT ![u] = Restamped(merged, now)]
       /\ health_analyses' = [health_analyses EXCEPT ![u] = result.analysis]
       /\ health_alert_history' = [health_alert_history EXCEPT
                                     ![u] = LastN(@ \o result.alerts, AlertHistoryCap)]
       /\ SetEm(ForwardAlerts(EmState, u, UrgentAlerts(result.alerts), merged, now))
       /\ UNCHANGED <<safety_analyses, safety_alert_history,
                      social_analyses, social_alert_history>>

\* _process_safety_data
ProcessSafetyData(u, context, safety_data) ==
    LET result == process_safety_data(analyzer_data[u], safety_data, now)
        merged == [context EXCEPT !.safety_status = result.analysis.safety_status,
                                  !.current_location = result.analysis.current_location,
                                  !.alerts = MergeAlerts(@, result.alerts)]
        emergency_data == SafetyEmergencyData(safety_data)
    IN /\ user_contexts' = [user_contexts EXCEPT ![u] = Restamped(merged, now)]
       /\ safety_analyses' = [safety_analyses EXCEPT ![u] = result.analysis]
       /\ safety_alert_history' = [safety_alert_history EXCEPT
                                     ![u] = LastN(@ \o result.alerts, AlertHistoryCap)]
       /\ IF result.emergency
          THEN SetEm(EmAfterHandle(EmState, u, emergency_data.type, emergency_data.details,
                                   emergency_data.location, now))
          ELSE UNCHANGED emVars
       /\ UNCHANGED <<health_analyses, health_alert_history,
                      social_analyses, social_alert_history>>

\* a reminder message that refreshes every status of the context instead
ProcessReminderDataRefreshingAll(u, context) ==
    /\ user_contexts' =
          [user_contexts EXCEPT ![u] = initialize_user_context(analyzer_data[u], now)]
    /\ UNCHANGED <<emVars, agentVars>>

\* _process_reminder_data.  `"reminder_status" in result["analysis"]` raises a
\* TypeError when the analysis is None; handle_incoming_data catches it.
ProcessReminderData(u, context) ==
    LET result == process_reminder_data(analyzer_data[u])
    IN /\ user_contexts' =
            [user_contexts EXCEPT
               ![u] = IF result.analysis.status = "success"
                      THEN Restamped([context EXCEPT
                                !.reminder_status = result.analysis.reminder_status], now)
                      ELSE context]
       /\ UNCHANGED <<emVars, agentVars>>

\* _process_social_data, had it forwarded its urgent alerts as
\* _process_health_data does
ProcessSocialDataForwarding(u, context, outcome) ==
    LET analysis == analyze_social_data(outcome)
        alerts   == check_social_isolation(outcome, now)
        merged   == [context EXCEPT !.social_status = analysis.social_status,
                                    !.alerts = MergeAlerts(@, alerts)]
    IN /\ social_analyses' = [social_analyses EXCEPT ![u] = analysis]
       /\ social_alert_history' = [social_alert_history EXCEPT
                                     ![u] = LastN(@ \o alerts, SocialAlertHistoryCap)]
       /\ user_contexts' =
            [user_contexts EXCEPT
               ![u] = IF analysis.status = "success" THEN Restamped(merged, now)
                      ELSE context]
       /\ IF analysis.status = "success"
          THEN SetEm(ForwardAlerts(EmState, u, UrgentAlerts(alerts), merged, now))
          ELSE UNCHANGED emVars
       /\ UNCHANGED <<health_analyses, health_alert_history,
                      safety_analyses, safety_alert_history>>

\* _process_social_data.  The agent has stored its analysis and alerts before
\* the coordinator fails on an analysis that is None.
ProcessSocialData(u, context, outcome) ==
    LET analysis == analyze_social_data(outcome)
        alerts   == check_social_isolation(outcome, now)
    IN /\ social_analyses' = [social_analyses EXCEPT ![u] = analysis]
       /\ social_alert_history' = [social_alert_history EXCEPT
                                     ![u] = LastN(@ \o alerts, SocialAlertHistoryCap)]
       /\ user_contexts' =
            [user_contexts EXCEPT
               ![u] = IF analysis.status = "success"
                      THEN Restamped([context EXCEPT
                                !.social_status = analysis.social_status,
                                !.alerts = MergeAlerts(@, alerts)], now)
                      ELSE context]
       /\ UNCHANGED <<emVars, health_analyses, health_alert_history,
                      safety_analyses, safety_alert_history>>

\* the domain agents, named by the data type routed to them
DomainAgents == {"health", "safety", "reminder", "social"}

\* how the routed _process_*_data call ends when the agent itself does not
\* raise: with the agent's result, or with the TypeError of a None analysis
ProcessOutcome(u, data) ==
    CASE data.type \in {"health", "safety"} -> "success"
      [] data.type = "reminder" ->
            IF process_reminder_data(analyzer_data[u]).analysis.status = "success"
            THEN "success" ELSE "raised"
      [] data.type = "social" ->
            IF analyze_social_data(data.data).status = "success"
            THEN "success" ELSE "raised"
      [] OTHER -> "error"

\* the try/except of handle_incoming_data: an exception becomes an error dict
UncaughtOutcome(outcome) == outcome
CaughtOutcome(outcome) == IF outcome = "raised" THEN "error" ELSE outcome

\* handle_incoming_data for a user_id, every routed agent set and answering
RouteIncomingData(u, data) ==
    /\ data.type \in DomainAgents => data.type \in agents_set
    /\ LET context == ContextOf(user_contexts, analyzer_data[u], u, now)
       IN CASE data.type = "health"   -> ProcessHealthData(u, context, data.data)
            [] data.type = "safety"   -> ProcessSafetyData(u, context, data.data)
            [] data.type = "reminder" -> ProcessReminderData(u, context)
            [] data.type = "social"   -> ProcessSocialData(u, context, data.data)
            [] OTHER -> /\ user_contexts' = [user_contexts EXCEPT ![u] = context]
                        /\ UNCHANGED <<emVars, agentVars>>
    /\ data_result' = CaughtOutcome(ProcessOutcome(u, data))
    /\ UNCHANGED <<now, last_update, analyzer_data, agents_set, thVars, tracked_emergency, dbVars, dailyVars, loopVars>>

\* one call of handle_incoming_data, of the calls the model counts
HandleIncomingData(u, data) ==
    /\ data_calls < MaxDataCalls
    /\ data_calls' = data_calls + 1
    /\ RouteIncomingData(u, data)

\* handle_incoming_data(data): data may lack its user_id, the routed agent
\* may not be set, and its process_message may raise (`raises`; it is taken
\* to raise before it stored anything)
HandleIncomingDataCall(user_id, data, raises) ==
    IF user_id = Absent
    THEN /\ data_calls < MaxDataCalls
         /\ data_calls' = data_calls + 1
         /\ data_result' = "error"
         /\ UNCHANGED <<now, emVars, last_update, user_contexts, analyzer_data,
                        agentVars, agents_set, thVars, tracked_emergency, dbVars, dailyVars, loopVars>>
    ELSE IF data.type \in DomainAgents /\ (data.type \notin agents_set \/ raises)
    THEN /\ data_calls < MaxDataCalls
         /\ data_calls' = data_calls + 1
         /\ user_contexts' = [user_contexts EXCEPT
                                ![user_id] = ContextOf(user_contexts, analyzer_data[user_id],
                                                       user_id, now)]
         /\ data_result' = IF data.type \notin agents_set THEN "error"
                           ELSE CaughtOutcome("raised")
         /\ UNCHANGED <<now, emVars, last_update, analyzer_data, agentVars, agents_set, thVars, tracked_emergency, dbVars, dailyVars, loopVars>>
    ELSE HandleIncomingData(user_id, data)

\* the agent whose status call raises during an operation of the coordinator
\* ("none": no call raises); each call sits in its own try/except
RaisingAgents == {"none", "health", "safety", "reminder", "social"}

\* _update_user_context: the context after the refresh
update_user_context_skipping(u, context, t, raising) ==
    Restamped(context, t)
update_user_context(u, context, t, raising) ==
    LET health_status == get_health_status(health_analyses[u], health_alert_history[u],
                                           analyzer_data[u])
        c1 == IF "health" \in agents_set /\ raising # "health" /\ health_status.status = "success"
              THEN [context EXCEPT !.health_status = health_status.analysis.health_status,
                                   !.alerts = MergeAlerts(@, health_status.alerts)]
              ELSE context
        safety_status == get_safety_status(safety_analyses[u], safety_alert_history[u],
                                           analyzer_data[u])
        c2 == IF "safety" \in agents_set /\ raising # "safety" /\ safety_status.status = "success"
              THEN [c1 EXCEPT !.safety_status = safety_status.analysis.safety_status,
                              !.current_location = safety_status.analysis.current_location,
                              !.alerts = MergeAlerts(@, safety_status.alerts)]
              ELSE c1
        reminder_status == get_reminder_status(analyzer_data[u])
        c3 == IF "reminder" \in agents_set /\ raising # "reminder"
                 /\ reminder_status.status = "success"
              THEN [c2 EXCEPT !.reminder_status = reminder_status.analysis.reminder_status]
              ELSE c2
        social_status == get_social_status(social_analyses[u], social_alert_history[u])
        c4 == IF "social" \in agents_set /\ raising # "social" /\ social_status.status = "success"
              THEN [c3 EXCEPT !.social_status = social_status.social_status,
                              !.alerts = MergeAlerts(@, social_status.alerts)]
              ELSE c3
        c5 == [c4 EXCEPT !.emergency_status =
                           IF active_emergencies[u] # NoEmergency
                           THEN active_emergencies[u].type ELSE "none"]
    IN Restamped(c5, t)

\* the context is older than 60 seconds
StaleFromSixty(context, t) == t - context.last_update >= ContextMaxAge
Stale(context, t) == t - context.last_update > ContextMaxAge

\* get_user_status: creates the context if needed, refreshes it if stale, and
\* asks every agent for its status (which fills the agents' analysis caches)
GetUserStatus(u, raising) ==
    LET context == ContextOf(user_contexts, analyzer_data[u], u, now)
    IN /\ user_contexts' = [user_contexts EXCEPT
                              ![u] = IF Stale(context, now)
                                     THEN update_user_context(u, context, now, raising)
                                     ELSE context]
       /\ health_analyses' = [health_analyses EXCEPT
                                ![u] = IF raising = "health" THEN @
                                       ELSE get_health_status(@, health_alert_history[u],
                                                              analyzer_data[u]).cache]
       /\ safety_analyses' = [safety_analyses EXCEPT
                                ![u] = IF raising = "safety" THEN @
                                       ELSE get_safety_status(@, safety_alert_history[u],
                                                              analyzer_data[u]).cache]
       /\ UNCHANGED <<now, emVars, last_update, analyzer_data, health_alert_history,
                      safety_alert_history, social_analyses, social_alert_history,
                      data_calls, agents_set, data_result, thVars, tracked_emergency, dbVars, dailyVars, loopVars>>

\* CoordinationAgent.update(): refreshes every stale context
CoordinationUpdate(raising) ==
    LET stale == {u \in Users : user_contexts[u] # Missing /\ Stale(user_contexts[u], now)}
    IN /\ user_contexts' = [u \in Users |->
                              IF u \in stale
                              THEN update_user_context(u, user_contexts[u], now, raising)
                              ELSE user_contexts[u]]
       /\ health_analyses' = [u \in Users |->
                                IF u \in stale /\ raising # "health"
                                THEN get_health_status(health_analyses[u],
                                        health_alert_history[u], analyzer_data[u]).cache
                                ELSE health_analyses[u]]
       /\ safety_analyses' = [u \in Users |->
                                IF u \in stale /\ raising # "safety"
                                THEN get_safety_status(safety_analyses[u],
                                        safety_alert_history[u], analyzer_data[u]).cache
                                ELSE safety_analyses[u]]
       /\ UNCHANGED <<now, emVars, last_update, analyzer_data, health_alert_history,
                      safety_alert_history, social_analyses, social_alert_history,
                      data_calls, agents_set, data_result, thVars, tracked_emergency, dbVars, dailyVars, loopVars>>

\* alert.get("id"): no agent gives its alerts an id
AlertIdOfType(alert) == alert.type
AlertId(alert) == Absent

\* resolve_alert: the index of the first alert whose id equals alert_id (0: none)
FoundAlert(alerts, alert_id) ==
    IF \E i \in 1..Len(alerts) : AlertId(alerts[i]) = alert_id
    THEN CHOOSE i \in 1..Len(alerts) :
            /\ AlertId(alerts[i]) = alert_id
            /\ \A j \in 1..(i - 1) : AlertId(alerts[j]) # alert_id
    ELSE 0

\* resolve_alert on an existing context: the status returned and the context left
resolve_alert(context, alert_id, t) ==
    LET i == FoundAlert(context.alerts, alert_id)
    IN IF i = 0
       THEN [status |-> "error", context |-> context]
       ELSE [status  |-> "success",
             context |-> Restamped([context EXCEPT
                            !.alerts = SubSeq(@, 1, i - 1) \o SubSeq(@, i + 1, Len(@))],
                            t)]

\* resolve_alert(user_id, alert_id) for a user with a context
ResolveAlert(u, alert_id) ==
    /\ user_contexts[u] # Missing
    /\ user_contexts' = [user_contexts EXCEPT
                           ![u] = resolve_alert(user_contexts[u], alert_id, now).context]
    /\ UNCHANGED <<now, emVars, last_update, analyzer_data, agentVars, data_calls,
                   agents_set, data_result, thVars, tracked_emergency, dbVars, dailyVars, loopVars>>

\* the clock advances by one minute
Tick ==
    /\ now < MaxTime
    /\ now' = now + 1
    /\ UNCHANGED <<emVars, last_update, coVars>>

\* _determine_overall_status applied to a context, on its own
DetermineOverallStatus(u) ==
    /\ user_contexts[u] # Missing
    /\ user_contexts' = [user_contexts EXCEPT
                           ![u] = [@ EXCEPT !.overall_status =
                                      determine_overall_status(user_contexts[u])]]
    /\ UNCHANGED <<now, emVars, last_update, analyzer_data, agentVars, data_calls,
                   agents_set, data_result, thVars, tracked_emergency, dbVars, dailyVars, loopVars>>

\* the Emergency Agent after _initialize_user_data for every user
EmInit ==
    /\ active_emergencies = [u \in Users |-> NoEmergency]
    /\ emergency_history = [u \in Users |-> <<>>]
    /\ emergency_contacts = [u \in Users |-> SimulatedContacts]
    /\ caregiver_notifications = [u \in Users |-> <<>>]
    /\ events = [u \in Users |-> <<>>]
    /\ last_update = 0
    /\ tracked_emergency = [emergency |-> NoEmergency, services_notified |-> FALSE]

\* the agents app.initialize_system starts a processing loop for
Agents == {"health", "emergency"}

\* after BaseAgent.start(): the loop task is created, nothing is queued, and
\* app.running is True
LoopInit ==
    /\ running = TRUE
    /\ loop_pc = [a \in Agents |-> "sleep"]
    /\ message_queue = [a \in Agents |-> <<>>]
    /\ handled = [a \in Agents |-> {}]
    /\ iterations_after_exit = [a \in Agents |-> 0]
    /\ callbacks = [a \in Agents |-> {}]
    /\ callback_calls = [a \in Agents |-> <<>>]
    /\ time_time = 0

\* the tables initialize_database creates
DatabaseTables == {"users", "health_data", "safety_data", "reminders", "alerts", "events"}

\* the store after app.initialize_system: every table is there
DbInit ==
    /\ db_tables = DatabaseTables
    /\ insert_errors = 0

\* the users of the Daily Assistant, in the order of its user_data dict
DailyUsers == <<"u1", "u2">>

\* DailyAssistantAgent after initialize(), for users without reminder rows:
\* _initialize_user_data leaves upcoming_reminders empty
\* max_delay NoValue: the preferences do not hold the reminder's type
NoReminderData == [reminder_history |-> <<>>, max_delay |-> NoValue, alert_history |-> <<>>]

DailyInit ==
    /\ upcoming_reminders = [k \in DOMAIN DailyUsers |-> <<>>]
    /\ reminder_rows = {}
    /\ daily_update_result = "none"
    /\ reminder_user_data = [k \in DOMAIN DailyUsers |-> NoReminderData]

\* the domain agents after construction: nothing cached, no alert recorded
DomainAgentsInit ==
    /\ health_analyses = [u \in Users |-> Missing]
    /\ health_alert_history = [u \in Users |-> <<>>]
    /\ safety_analyses = [u \in Users |-> Missing]
    /\ safety_alert_history = [u \in Users |-> <<>>]
    /\ social_analyses = [u \in Users |-> Missing]
    /\ social_alert_history = [u \in Users |-> <<>>]
    /\ health_means = [u \in Users |-> NoMeans]
    /\ personalized_thresholds = [u \in Users |-> DefaultThresholds]

AgentsInit ==
    /\ LoopInit
    /\ DailyInit
    /\ DomainAgentsInit

\* a user the analyzer has no rows for
UnknownUser == [health |-> NoRows, safety |-> NoRows, reminders |-> NoRows]

\* the Emergency Agent on its own: the coordinator holds no context
InitEm ==
    /\ now = 0
    /\ EmInit
    /\ AgentsInit
    /\ DbInit
    /\ user_contexts = [u \in Users |-> Missing]
    /\ analyzer_data = [u \in Users |-> UnknownUser]
    /\ data_calls = 0
    /\ agents_set = DomainAgents
    /\ data_result = "none"

NextEm ==
    \/ \E u \in Users, data \in EmergencyInputs :
          HandleEmergency(u, data.type, data.details, data.location)
    \/ EmUpdate
    \/ \E u \in Users : \E emergency_id \in ResolveIds(u) : ResolveEmergency(u, emergency_id)
    \/ EmTick

SpecEm == InitEm /\ [][NextEm]_vars

(***************************************************************************)
(* The Emergency Agent over a long run of emergencies of one kind after    *)
(* another: every handle_emergency call opens an emergency or supersedes   *)
(* the active one of the other type.                                       *)
(***************************************************************************)
HistoryInputs ==
    { [type |-> "fall",   details |-> PlainDetails, location |-> "Bathroom"],
      [type |-> "safety", details |-> PlainDetails, location |-> "Bedroom"] }

\* resolve_emergency calls that have succeeded for the user
ManualResolves(u) ==
    Cardinality({i \in 1..Len(emergency_history[u]) :
                    emergency_history[u][i].resolution_details = "Manually resolved"})

\* handle_emergency that finds no active emergency, or one of another type
NextEmergency(u, data) ==
    /\ \/ active_emergencies[u] = NoEmergency
       \/ /\ active_emergencies[u] # NoEmergency
          /\ active_emergencies[u].type # data.type
          /\ Len(emergency_history[u]) < MaxHistory
    /\ HandleEmergencyCall(u, data.type, data.details, data.location)

\* resolve_emergency(user_id) without an id
ResolveActive(u) ==
    /\ active_emergencies[u] # NoEmergency
    /\ ManualResolves(u) < MaxManualResolves
    /\ Len(emergency_history[u]) < MaxHistory
    /\ ResolveEmergency(u, NoId)

HistTick ==
    /\ now < MaxHistTime
    /\ now' = now + 1
    /\ UNCHANGED <<emVars, last_update, coVars>>

NextHistory ==
    \/ \E u \in Users, data \in HistoryInputs : NextEmergency(u, data)
    \/ \E u \in Users : ResolveActive(u)
    \/ EmUpdate
    \/ HistTick

SpecHistory == InitEm /\ [][NextHistory]_vars

(***************************************************************************)
(* The Emergency Agent with contact lists installed by                     *)
(* update_emergency_contacts between the emergencies.                      *)
(***************************************************************************)
\* the emergencies notified: those of EmergencyInputs and one of type 'safety'
ContactsInputs ==
    EmergencyInputs
    \cup { [type |-> "safety", details |-> PlainDetails, location |-> "Bedroom"] }

NextContacts ==
    \/ \E u \in Users, contacts \in ContactLists : UpdateEmergencyContacts(u, contacts)
    \/ \E u \in Users, data \in ContactsInputs :
          HandleEmergency(u, data.type, data.details, data.location)

SpecContacts == InitEm /\ [][NextContacts]_vars

\* the system after construction and set_agents, over every analyzer profile.
\* The Emergency Agent's periodic step is left to SpecEm: within MaxTime
\* minutes no escalation is due, and resolve_emergency clears the slot itself.
Init ==
    /\ now = 0
    /\ EmInit
    /\ AgentsInit
    /\ DbInit
    /\ user_contexts = [u \in Users |-> Missing]
    /\ analyzer_data \in [Users -> AnalyzerProfiles]
    /\ data_calls = 0
    /\ agents_set = DomainAgents
    /\ data_result = "none"

Next ==
    \/ \E u \in Users, reading \in HealthReadings :
          HandleIncomingData(u, [type |-> "health", data |-> reading])
    \/ \E u \in Users, reading \in SafetyReadings :
          HandleIncomingData(u, [type |-> "safety", data |-> reading])
    \/ \E u \in Users, outcome \in SocialOutcomes :
          HandleIncomingData(u, [type |-> "social", data |-> outcome])
    \/ \E u \in Users, type \in {"reminder", "weather"} :
          HandleIncomingData(u, [type |-> type, data |-> Absent])
    \/ \E u \in Users, raising \in RaisingAgents : GetUserStatus(u, raising)
    \/ \E raising \in RaisingAgents : CoordinationUpdate(raising)
    \/ \E u \in Users : \E emergency_id \in ResolveIds(u) : ResolveEmergency(u, emergency_id)
    \/ Tick

Spec == Init /\ [][Next]_vars

\* the system with resolve_alert calls as well: without an id, with an id
NextAlerts ==
    \/ Next
    \/ \E u \in Users, alert_id \in {Absent, "A1"} : ResolveAlert(u, alert_id)

SpecAlerts == Init /\ [][NextAlerts]_vars

\* handle_incoming_data on a coordinator given any of the domain agents, for
\* messages with and without a user_id, of known and unknown type
InitData ==
    /\ now = 0
    /\ EmInit
    /\ AgentsInit
    /\ DbInit
    /\ user_contexts = [u \in Users |-> Missing]
    /\ analyzer_data \in [Users -> AnalyzerProfiles]
    /\ data_calls = 0
    /\ agents_set \in SUBSET DomainAgents
    /\ data_result = "none"

DataMessages ==
    {[type |-> "health", data |-> reading] : reading \in HealthReadings}
    \cup {[type |-> "safety", data |-> reading] : reading \in SafetyReadings}
    \cup {[type |-> "social", data |-> outcome] : outcome \in SocialOutcomes}
    \cup {[type |-> type, data |-> Absent] : type \in {"reminder", "weather"}}

NextData ==
    \E user_id \in Users \cup {Absent}, data \in DataMessages, raises \in BOOLEAN :
        HandleIncomingDataCall(user_id, data, raises)

SpecData == InitData /\ [][NextData]_vars

\* handle_incoming_data for users whose latest health row has a systolic
\* pressure and an oxygen saturation around the cut-offs of the alert levels
InitLevels ==
    /\ now = 0
    /\ EmInit
    /\ AgentsInit
    /\ DbInit
    /\ user_contexts = [u \in Users |-> Missing]
    /\ analyzer_data \in
          [Users -> {[health    |-> HealthRows(1, 72, systolic, 85, 100, oxygen),
                      safety    |-> NoRows,
                      reminders |-> NoRows] :
                        systolic \in {141, 159, 160, 161}, oxygen \in {91, 92, 93, 94}}]
    /\ data_calls = 0
    /\ agents_set = DomainAgents
    /\ data_result = "none"

SpecLevels == InitLevels /\ [][NextData]_vars

\* a domain agent's process_message for "health_data", "safety_data" or
\* "social_data": the analysis is cached, the alerts join the alert_history
AgentProcessData(u, data) ==
    /\ CASE data.type = "health" ->
               LET result == process_health_data(analyzer_data[u], data.data, now)
               IN /\ health_analyses' = [health_analyses EXCEPT ![u] = result.analysis]
                  /\ health_alert_history' =
                        [health_alert_history EXCEPT
                           ![u] = LastN(@ \o result.alerts, AlertHistoryCap)]
                  /\ UNCHANGED <<safety_analyses, safety_alert_history,
                                 social_analyses, social_alert_history>>
         [] data.type = "safety" ->
               LET result == process_safety_data(analyzer_data[u], data.data, now)
               IN /\ safety_analyses' = [safety_analyses EXCEPT ![u] = result.analysis]
                  /\ safety_alert_history' =
                        [safety_alert_history EXCEPT
                           ![u] = LastN(@ \o result.alerts, AlertHistoryCap)]
                  /\ UNCHANGED <<health_analyses, health_alert_history,
                                 social_analyses, social_alert_history>>
         [] data.type = "social" ->
               /\ social_analyses' = [social_analyses EXCEPT
                                        ![u] = analyze_social_data(data.data)]
               /\ social_alert_history' =
                     [social_alert_history EXCEPT
                        ![u] = LastN(@ \o check_social_isolation(data.data, now),
                                     SocialAlertHistoryCap)]
               /\ UNCHANGED <<health_analyses, health_alert_history,
                              safety_analyses, safety_alert_history>>
    /\ UNCHANGED <<now, emVars, last_update, user_contexts, analyzer_data, data_calls,
                   agents_set, data_result, thVars, tracked_emergency, dbVars, dailyVars, loopVars>>

\* update() of the Health Monitor or of the Social Engagement agent, for a
\* user whose analysis is older than the update interval
AgentUpdate(agent, u, outcome) ==
    /\ CASE agent = "health" ->
               LET analysis == analyze_health_metrics(analyzer_data[u])
               IN /\ analysis.status = "success"
                  /\ health_analyses' = [health_analyses EXCEPT ![u] = analysis]
                  /\ health_alert_history' =
                        [health_alert_history EXCEPT
                           ![u] = LastN(@ \o generate_health_alerts(DefaultThresholds,
                                                                    analysis, now),
                                        AlertHistoryCap)]
                  /\ UNCHANGED <<social_analyses, social_alert_history>>
         [] agent = "social" ->
               /\ social_analyses' = [social_analyses EXCEPT
                                        ![u] = analyze_social_data(outcome)]
               /\ social_alert_history' =
                     [social_alert_history EXCEPT
                        ![u] = LastN(@ \o check_social_isolation(outcome, now),
                                     SocialAlertHistoryCap)]
               /\ UNCHANGED <<health_analyses, health_alert_history>>
    /\ UNCHANGED <<now, emVars, last_update, user_contexts, analyzer_data, data_calls,
                   agents_set, data_result, thVars, tracked_emergency, dbVars, dailyVars, loopVars, safety_analyses, safety_alert_history>>

\* readings that raise alerts keep arriving: three health alerts, a fall, a
\* social isolation alert at a time
NextCaps ==
    \/ \E u \in Users :
          AgentProcessData(u, [type |-> "health",
                               data |-> [heart_rate |-> 110, glucose |-> 185,
                                         oxygen |-> 91]])
    \/ \E u \in Users :
          AgentProcessData(u, [type |-> "safety",
                               data |-> [fall_detected |-> "Yes", location |-> "Bathroom",
                                         impact_force |-> "High",
                                         impact_force_level |-> Absent]])
    \/ \E u \in Users :
          AgentProcessData(u, [type |-> "social", data |-> "alert"])
    \/ \E agent \in {"health", "social"}, u \in Users, outcome \in SocialOutcomes :
          AgentUpdate(agent, u, outcome)

SpecCaps == Init /\ [][NextCaps]_vars

\* the means the health rows of a user may come to (tenths): below the
\* margin, ordinary, at the ceiling, above it; None for a blood pressure
HealthMeans ==
    [samples        : {MinHistory - 1, MinHistory},
     heart_rate     : {145, 724, 1355, 2000},
     mean_systolic  : {NoValue, 600, 1200, 1500},
     mean_diastolic : {NoValue, 350, 800, 950},
     glucose        : {400, 1000, 1655},
     oxygen         : {850, 975}]

\* the Health Monitor at _initialize_user_data, over the health rows
InitThresholds ==
    /\ now = 0
    /\ EmInit
    /\ health_analyses = [u \in Users |-> Missing]
    /\ health_alert_history = [u \in Users |-> <<>>]
    /\ safety_analyses = [u \in Users |-> Missing]
    /\ safety_alert_history = [u \in Users |-> <<>>]
    /\ social_analyses = [u \in Users |-> Missing]
    /\ social_alert_history = [u \in Users |-> <<>>]
    /\ user_contexts = [u \in Users |-> Missing]
    /\ analyzer_data = [u \in Users |-> UnknownUser]
    /\ data_calls = 0
    /\ agents_set = DomainAgents
    /\ data_result = "none"
    /\ LoopInit
    /\ DailyInit
    /\ DbInit
    /\ health_means \in [Users -> HealthMeans]
    /\ personalized_thresholds = [u \in Users |-> DefaultThresholds]

NextThresholds == \E u \in Users : InitializeUserData(u)

SpecThresholds == InitThresholds /\ [][NextThresholds]_vars

\* the status values _determine_overall_status is applied to: the four it
\* knows and one it does not
StatusValues == {"normal", "attention", "alert", "unknown", "critical"}
EmergencyStatusValues == {"none", "fall", "health"}

\* contexts holding every combination of statuses, overall_status not yet set
InitStatus ==
    /\ now = 0
    /\ EmInit
    /\ AgentsInit
    /\ DbInit
    /\ analyzer_data = [u \in Users |-> UnknownUser]
    /\ data_calls = 0
    /\ agents_set = DomainAgents
    /\ data_result = "none"
    /\ user_contexts \in
          [Users -> [health_status    : StatusValues,
                     safety_status    : StatusValues,
                     reminder_status  : StatusValues,
                     social_status    : StatusValues,
                     emergency_status : EmergencyStatusValues,
                     overall_status   : {Absent},
                     current_location : {"unknown"},
                     alerts           : {<<>>},
                     last_update      : {0}]]

NextStatus == \E u \in Users : DetermineOverallStatus(u)

SpecStatus == InitStatus /\ [][NextStatus]_vars

(***************************************************************************)
(* Claims about the Emergency Agent (checked under SpecEm)                 *)
(***************************************************************************)
\* a handle_emergency call for u that finds an active emergency of another type
SupersedingCall(u, data) ==
    /\ HandleEmergency(u, data.type, data.details, data.location)
    /\ active_emergencies[u] # NoEmergency
    /\ active_emergencies[u].type # data.type

\* a handle_emergency call for u that finds an active emergency of the same type
SameTypeCall(u, data) ==
    /\ HandleEmergency(u, data.type, data.details, data.location)
    /\ active_emergencies[u] # NoEmergency
    /\ active_emergencies[u].type = data.type

\* the unresolved emergencies the agent holds for u, in the slot or in the history
UnresolvedHeld(u) ==
    (IF active_emergencies[u] # NoEmergency /\ ~active_emergencies[u].resolved THEN 1 ELSE 0)
    + Cardinality({i \in 1..Len(emergency_history[u]) : ~emergency_history[u][i].resolved})

\* C3: a user never has more than one active (unresolved) emergency, and a
\* handle_emergency of a different type appends the old emergency, marked
\* resolved, to the user's history and installs the new one as active.
C3_OneActiveSupersede ==
    /\ [](\A u \in Users : UnresolvedHeld(u) <= 1)
    /\ [][\A u \in Users, data \in EmergencyInputs :
            SupersedingCall(u, data) =>
              /\ Len(emergency_history'[u]) = Len(emergency_history[u]) + 1
              /\ SubSeq(emergency_history'[u], 1, Len(emergency_history[u]))
                    = emergency_history[u]
              /\ emergency_history'[u][Len(emergency_history'[u])].id
                    = active_emergencies[u].id
              /\ emergency_history'[u][Len(emergency_history'[u])].resolved
              /\ active_emergencies'[u] # NoEmergency
              /\ active_emergencies'[u].type = data.type
              /\ ~active_emergencies'[u].resolved]_vars

\* C3 witness: an emergency was superseded and another one is active
C3_Witness ==
    \E u \in Users :
        /\ emergency_history[u] # <<>>
        /\ emergency_history[u][Len(emergency_history[u])].resolution_details
              = "Superseded by new emergency"
        /\ active_emergencies[u] # NoEmergency
        /\ active_emergencies[u].type
              # emergency_history[u][Len(emergency_history[u])].type

\* C4 (as claimed): a handle_emergency of the same type as the active
\* emergency leaves escalation_level and last_escalation as they were,
\* whatever details the call carries.
C4_SameTypeKeepsEscalation ==
    [][\A u \in Users, data \in EmergencyInputs :
            SameTypeCall(u, data) =>
              /\ active_emergencies'[u].escalation_level
                    = active_emergencies[u].escalation_level
              /\ active_emergencies'[u].last_escalation
                    = active_emergencies[u].last_escalation]_vars

\* the conditions under which the spec escalates an emergency at once
SevereInput(data) ==
    \/ data.type = "fall" /\ data.details.impact_force_level = "high"
    \/ data.type = "health" /\ data.details.note \in {"critical", "Critical"}

\* C5 (as claimed): superseding leaves A as the newest history entry, resolved
\* with the 'Superseded' reason, and B active at escalation level 1.
C5_SupersedeInstallsLevel1 ==
    [][\A u \in Users, data \in EmergencyInputs :
            SupersedingCall(u, data) =>
              /\ emergency_history'[u][Len(emergency_history'[u])]
                    = [active_emergencies[u] EXCEPT
                         !.resolved = TRUE,
                         !.resolution_details = "Superseded by new emergency",
                         !.resolution_time = now]
              /\ active_emergencies'[u].type = data.type
              /\ active_emergencies'[u].created_at = now
              /\ active_emergencies'[u].escalation_level = 1]_vars

\* C5 (amended): as C5, but B is at level 2 when it is a fall with
\* impact_force_level 'high' or a health emergency whose details mention
\* 'critical', and at level 1 otherwise.
C5_SupersedeInstalls ==
    [][\A u \in Users, data \in EmergencyInputs :
            SupersedingCall(u, data) =>
              /\ emergency_history'[u][Len(emergency_history'[u])]
                    = [active_emergencies[u] EXCEPT
                         !.resolved = TRUE,
                         !.resolution_details = "Superseded by new emergency",
                         !.resolution_time = now]
              /\ active_emergencies'[u].type = data.type
              /\ active_emergencies'[u].created_at = now
              /\ active_emergencies'[u].escalation_level
                    = (IF SevereInput(data) THEN 2 ELSE 1)]_vars

\* C5 witness: A was superseded by a severe B, which is active at level 2
C5_Witness ==
    \E u \in Users :
        /\ emergency_history[u] # <<>>
        /\ emergency_history[u][Len(emergency_history[u])].resolution_details
              = "Superseded by new emergency"
        /\ active_emergencies[u] # NoEmergency
        /\ active_emergencies[u].created_at
              = emergency_history[u][Len(emergency_history[u])].resolution_time
        /\ active_emergencies[u].escalation_level = 2

\* C6: an update() tick escalates an active emergency at level n < 3 to
\* exactly n+1, with last_escalation set to the tick time, if and only if at
\* least 5 minutes have passed since last_escalation; otherwise (less than 5
\* minutes, or level 3) the tick leaves the emergency unchanged.
C6_TickEscalation ==
    [][EmUpdate =>
         \A u \in Users :
            active_emergencies[u] # NoEmergency =>
              LET e == active_emergencies[u]
              IN IF e.escalation_level < 3 /\ now - e.last_escalation >= 5
                 THEN active_emergencies'[u]
                        = [e EXCEPT !.escalation_level = e.escalation_level + 1,
                                    !.last_escalation = now]
                 ELSE active_emergencies'[u] = e]_vars

\* C6 witness: an emergency that the timer has escalated
C6_Witness ==
    \E u \in Users :
        /\ active_emergencies[u] # NoEmergency
        /\ active_emergencies[u].escalation_level = 3
        /\ active_emergencies[u].last_escalation
              >= active_emergencies[u].created_at + EscalationMinutes

(***************************************************************************)
(* Claims about the overall status (C1 under SpecStatus, C2 under Spec)    *)
(***************************************************************************)
\* the priority rule, as the specification words it
PriorityRule(context) ==
    LET AnyDomain(value) == \/ context.health_status = value
                            \/ context.safety_status = value
                            \/ context.reminder_status = value
                            \/ context.social_status = value
        NormalOrUnknown(status) == status = "normal" \/ status = "unknown"
    IN CASE context.emergency_status # "none" -> "emergency"
         [] context.emergency_status = "none" /\ AnyDomain("alert") -> "alert"
         [] context.emergency_status = "none" /\ ~AnyDomain("alert") /\ AnyDomain("attention")
              -> "attention"
         [] /\ context.emergency_status = "none"
            /\ ~AnyDomain("alert") /\ ~AnyDomain("attention")
            /\ NormalOrUnknown(context.health_status)
            /\ NormalOrUnknown(context.safety_status)
            /\ NormalOrUnknown(context.reminder_status)
            /\ NormalOrUnknown(context.social_status) -> "normal"
         [] OTHER -> "unknown"

\* C1: for every combination of emergency_status and the four domain
\* statuses, _determine_overall_status returns 'emergency' if emergency_status
\* is not 'none', else 'alert' if any domain status is 'alert', else
\* 'attention' if any is 'attention', else 'normal' if every non-unknown
\* domain status is 'normal', else 'unknown'.
C1_DetermineOverallStatus ==
    \A u \in Users :
        (user_contexts[u] # Missing /\ user_contexts[u].overall_status # Absent)
        => user_contexts[u].overall_status = PriorityRule(user_contexts[u])

\* C1 witness: the rule has been applied to statuses that are neither all
\* normal nor known to the rule, and came out 'unknown'
C1_Witness ==
    \E u \in Users :
        /\ user_contexts[u] # Missing
        /\ user_contexts[u].overall_status = "unknown"
        /\ user_contexts[u].health_status = "critical"
        /\ user_contexts[u].safety_status = "normal"

\* C2: in every reachable state, every existing context's stored
\* overall_status equals the priority rule applied to the context's current
\* emergency_status and four domain statuses, also right after the context
\* is lazily created.
C2_StoredOverallStatus ==
    \A u \in Users :
        user_contexts[u] # Missing
        => user_contexts[u].overall_status = PriorityRule(user_contexts[u])

(***************************************************************************)
(* Claims about the routing of readings (checked under Spec)               *)
(***************************************************************************)
\* nothing is known about the user yet: no context, no emergency on record
FreshUser(u) ==
    /\ user_contexts[u] = Missing
    /\ active_emergencies[u] = NoEmergency
    /\ emergency_history[u] = <<>>

\* C7: for a fresh user, when handle_incoming_data for a safety reading with
\* fall_detected 'Yes' returns, the user's context has overall_status
\* 'emergency'.
C7_FallSetsOverallEmergency ==
    [][\A u \in Users : \A reading \in SafetyReadings :
          ( /\ FreshUser(u)
            /\ reading.fall_detected = "Yes"
            /\ HandleIncomingData(u, [type |-> "safety", data |-> reading]) )
          => user_contexts'[u].overall_status = "emergency"]_vars

\* C8: when the coordinator routes the safety reading {fall_detected: 'Yes',
\* location: 'Bathroom', impact_force: 'High'} for a fresh user, the
\* Emergency Agent holds an active 'fall' emergency for the user that is at
\* escalation level 2 when handle_incoming_data returns.
C8_HighImpactFallAtLevel2 ==
    [][\A u \in Users :
          ( /\ FreshUser(u)
            /\ HandleIncomingData(u, [type |-> "safety",
                                      data |-> [fall_detected |-> "Yes",
                                                location |-> "Bathroom",
                                                impact_force |-> "High",
                                                impact_force_level |-> Absent]]) )
          => /\ active_emergencies'[u] # NoEmergency
             /\ active_emergencies'[u].type = "fall"
             /\ active_emergencies'[u].escalation_level = 2]_vars

\* the alerts of a result include one of level 'urgent'
HasUrgent(alerts) == \E i \in 1..Len(alerts) : alerts[i].level = "urgent"

\* C9: whenever health processing routed through handle_incoming_data yields
\* an alert of level 'urgent', or safety processing returns emergency = true,
\* the Emergency Agent holds an active emergency for the user when the call
\* returns: of type 'health' for the urgent health alert, of type 'fall' if
\* the reading had fall_detected 'Yes'.
C9_UrgentReachesEmergencyAgent ==
    [][\A u \in Users :
          /\ \A reading \in HealthReadings :
                ( /\ HandleIncomingData(u, [type |-> "health", data |-> reading])
                  /\ HasUrgent(process_health_data(analyzer_data[u], reading, now).alerts) )
                => /\ active_emergencies'[u] # NoEmergency
                   /\ active_emergencies'[u].type = "health"
                   /\ ~active_emergencies'[u].resolved
          /\ \A reading \in SafetyReadings :
                ( /\ HandleIncomingData(u, [type |-> "safety", data |-> reading])
                  /\ process_safety_data(analyzer_data[u], reading, now).emergency )
                => /\ active_emergencies'[u] # NoEmergency
                   /\ ~active_emergencies'[u].resolved
                   /\ reading.fall_detected = "Yes"
                        => active_emergencies'[u].type = "fall"]_vars

\* C9 witness: an urgent health alert sits in the context and the Emergency
\* Agent holds the health emergency created for it at the same instant
C9_Witness ==
    \E u \in Users :
        /\ user_contexts[u] # Missing
        /\ active_emergencies[u] # NoEmergency
        /\ active_emergencies[u].type = "health"
        /\ \E i \in 1..Len(user_contexts[u].alerts) :
              /\ user_contexts[u].alerts[i].level = "urgent"
              /\ user_contexts[u].alerts[i].timestamp = active_emergencies[u].created_at
              /\ active_emergencies[u].details.note = user_contexts[u].alerts[i].type

\* C10: merging an alert equal to one already in a context's alert list
\* leaves the list unchanged, and the list never holds two equal alerts.
C10_AlertMergeIdempotent ==
    \A u \in Users :
        user_contexts[u] # Missing
        => LET alerts == user_contexts[u].alerts
           IN /\ \A i, j \in 1..Len(alerts) : alerts[i] = alerts[j] => i = j
              /\ \A i \in 1..Len(alerts) : MergeAlerts(alerts, <<alerts[i]>>) = alerts

\* C10 witness: the Health Monitor reported the same alert twice, and the
\* context lists it once
C10_Witness ==
    \E u \in Users :
        /\ user_contexts[u] # Missing
        /\ \E i, j \in 1..Len(health_alert_history[u]) :
              /\ i < j
              /\ health_alert_history[u][i] = health_alert_history[u][j]
              /\ \E k \in 1..Len(user_contexts[u].alerts) :
                    user_contexts[u].alerts[k] = health_alert_history[u][i]

(***************************************************************************)
(* Claims about resolving alerts (checked under SpecAlerts)                *)
(***************************************************************************)
\* the alert list holds an alert whose id is alert_id
HoldsAlertId(alerts, alert_id) == \E i \in 1..Len(alerts) : AlertId(alerts[i]) = alert_id

C12_ResolveEmergency ==
    [][\A u \in Users : \A emergency_id \in ResolveIds(u) :
          ResolveEmergency(u, emergency_id) =>
            LET e == active_emergencies[u]
            IN IF e = NoEmergency \/ (emergency_id # NoId /\ emergency_id # e.id)
               THEN /\ ResolveStatus(EmState, u, emergency_id) = "error"
                    /\ active_emergencies'[u] = e
                    /\ emergency_history'[u] = emergency_history[u]
                    /\ events'[u] = events[u]
               ELSE /\ ResolveStatus(EmState, u, emergency_id) = "success"
                    /\ active_emergencies'[u] = NoEmergency
                    /\ Len(emergency_history'[u]) = Len(emergency_history[u]) + 1
                    /\ SubSeq(emergency_history'[u], 1, Len(emergency_history[u]))
                          = emergency_history[u]
                    /\ emergency_history'[u][Len(emergency_history'[u])]
                          = [e EXCEPT !.resolved = TRUE,
                                      !.resolution_time = now,
                                      !.resolution_details = "Manually resolved"]
                    /\ events'[u] = Append(events[u],
                                           [event_type   |-> "emergency_resolved",
                                            emergency_id |-> e.id])]_vars

\* C12 witness: the user's second emergency was resolved by resolve_emergency,
\* and the 'emergency_resolved' row for it is the last one persisted
C12_Witness ==
    \E u \in Users :
        /\ active_emergencies[u] = NoEmergency
        /\ Len(emergency_history[u]) = 2
        /\ emergency_history[u][2].resolved
        /\ emergency_history[u][2].resolution_details = "Manually resolved"
        /\ events[u][Len(events[u])]
              = [event_type |-> "emergency_resolved",
                 emergency_id |-> emergency_history[u][2].id]

\* C13: in every reachable state each user's emergency history holds at most
\* 20 entries, after any sequence of resolve_emergency calls and superseding
\* handle_emergency calls.
C13_HistoryAtMost20 ==
    \A u \in Users : Len(emergency_history[u]) <= 20

NewNotifications(u) ==
    SubSeq(caregiver_notifications'[u], Len(caregiver_notifications[u]) + 1,
           Len(caregiver_notifications'[u]))
NewEvents(u) == SubSeq(events'[u], Len(events[u]) + 1, Len(events'[u]))
UrgentAmong(notifications) ==
    {i \in 1..Len(notifications) : notifications[i].urgent}
ServicesAmong(rows) ==
    {i \in 1..Len(rows) : rows[i].event_type = "emergency_services_notification"}

\* C15: under the default level-to-action mapping, each escalation to level 2
\* records exactly one caregiver notification with urgent = true, each
\* escalation to level 3 persists exactly one 'emergency_services_notification'
\* event, and no emergency-services notification is ever persisted for an
\* emergency that has not reached level 3.
C15_EscalationActions ==
    [][\A u \in Users :
          LET e  == active_emergencies[u]
              e2 == active_emergencies'[u]
          IN /\ ( /\ EmUpdate
                  /\ e # NoEmergency /\ e2 # NoEmergency
                  /\ e.escalation_level = 1 /\ e2.escalation_level = 2 )
                => /\ Len(NewNotifications(u)) = 1
                   /\ NewNotifications(u)[1].urgent
                   /\ NewNotifications(u)[1].emergency_id = e.id
                   /\ ServicesAmong(NewEvents(u)) = {}
             /\ ( \E data \in EmergencyInputs :
                     /\ HandleEmergency(u, data.type, data.details, data.location)
                     /\ SevereInput(data) )
                => /\ Cardinality(UrgentAmong(NewNotifications(u))) = 1
                   /\ \A i \in UrgentAmong(NewNotifications(u)) :
                         NewNotifications(u)[i].emergency_id = e2.id
                   /\ ServicesAmong(NewEvents(u)) = {}
             /\ ( /\ EmUpdate
                  /\ e # NoEmergency /\ e2 # NoEmergency
                  /\ e.escalation_level = 2 /\ e2.escalation_level = 3 )
                => /\ Cardinality(ServicesAmong(NewEvents(u))) = 1
                   /\ NewNotifications(u) = <<>>
             /\ ServicesAmong(NewEvents(u)) # {}
                => /\ e2 # NoEmergency
                   /\ e2.escalation_level = 3
                   /\ \A i \in ServicesAmong(NewEvents(u)) :
                         NewEvents(u)[i].emergency_id = e2.id]_vars

\* C15 witness: an emergency escalated at once to level 2 has reached level 3
\* on the timer; one urgent notification and one emergency-services row are
\* on record for it
C15_Witness ==
    \E u \in Users :
        /\ active_emergencies[u] # NoEmergency
        /\ active_emergencies[u].escalation_level = 3
        /\ Cardinality({i \in 1..Len(events[u]) :
              events[u][i] = [event_type |-> "emergency_services_notification",
                              emergency_id |-> active_emergencies[u].id]}) = 1
        /\ Cardinality({i \in 1..Len(caregiver_notifications[u]) :
              /\ caregiver_notifications[u][i].urgent
              /\ caregiver_notifications[u][i].emergency_id = active_emergencies[u].id}) = 1

(***************************************************************************)
(* Claims about the contacts of a notification (SpecContacts)              *)
(***************************************************************************)
\* the installed contacts whose notify_for contains the type or 'all'
Subscribed(contacts, etype) ==
    {i \in 1..Len(contacts) :
        etype \in contacts[i].notify_for \/ "all" \in contacts[i].notify_for}

\* the priority of the installed contact of that name
PriorityOf(contacts, name) ==
    contacts[CHOOSE i \in 1..Len(contacts) : contacts[i].name = name].priority

\* C16 (as claimed): for every emergency type T and every contact list
\* installed with update_emergency_contacts, the 'contacts' field of a
\* caregiver notification lists exactly the contacts whose notify_for
\* contains T or 'all', in ascending priority order.
C16_NotifiedContacts ==
    [][\A u \in Users, data \in ContactsInputs :
          HandleEmergency(u, data.type, data.details, data.location) =>
            \A n \in 1..Len(NewNotifications(u)) :
               LET installed == emergency_contacts[u]
                   names     == NewNotifications(u)[n].contacts
               IN /\ {names[i] : i \in 1..Len(names)}
                       = {installed[i].name : i \in Subscribed(installed, data.type)}
                  /\ Len(names) = Cardinality(Subscribed(installed, data.type))
                  /\ \A i, j \in 1..Len(names) :
                        i < j => PriorityOf(installed, names[i])
                                    <= PriorityOf(installed, names[j])]_vars

(***************************************************************************)
(* Claims about the context refresh (Spec)                                 *)
(***************************************************************************)
\* a step that refreshes the context of u while the status call of `raising`
\* raises: u has a context older than 60 seconds, and update() or
\* get_user_status runs
RefreshStep(u, raising) ==
    /\ user_contexts[u] # Missing
    /\ now - user_contexts[u].last_update > 1
    /\ (CoordinationUpdate(raising) \/ GetUserStatus(u, raising))

\* C17: during a context refresh, if the status call of a domain agent
\* raises or returns a non-success status, the statuses of the other domains
\* and the emergency_status are still refreshed, overall_status is recomputed
\* and last_update is advanced, while the failing domain's fields keep their
\* previous values.
C17_RefreshSurvivesFailingAgent ==
    [][\A u \in Users, raising \in RaisingAgents :
          RefreshStep(u, raising) =>
            LET before   == user_contexts[u]
                after    == user_contexts'[u]
                health   == get_health_status(health_analyses[u], health_alert_history[u],
                                              analyzer_data[u])
                safety   == get_safety_status(safety_analyses[u], safety_alert_history[u],
                                              analyzer_data[u])
                reminder == get_reminder_status(analyzer_data[u])
                social   == get_social_status(social_analyses[u], social_alert_history[u])
                Failed(agent, response) ==
                    raising = agent \/ response.status # "success"
            IN /\ after.health_status
                     = (IF Failed("health", health) THEN before.health_status
                        ELSE health.analysis.health_status)
               /\ after.safety_status
                     = (IF Failed("safety", safety) THEN before.safety_status
                        ELSE safety.analysis.safety_status)
               /\ after.current_location
                     = (IF Failed("safety", safety) THEN before.current_location
                        ELSE safety.analysis.current_location)
               /\ after.reminder_status
                     = (IF Failed("reminder", reminder) THEN before.reminder_status
                        ELSE reminder.analysis.reminder_status)
               /\ after.social_status
                     = (IF Failed("social", social) THEN before.social_status
                        ELSE social.social_status)
               /\ after.emergency_status
                     = (IF active_emergencies[u] # NoEmergency
                        THEN active_emergencies[u].type ELSE "none")
               /\ after.overall_status = PriorityRule(after)
               /\ after.last_update = now
               /\ after.last_update > before.last_update]_vars

\* C17 witness: a refresh has run (only a refresh writes emergency_status)
\* while the Health Monitor's call raised: its analysis cache is still empty
\* although the analyzer has health rows, and the Safety Guardian's is filled
C17_Witness ==
    \E u \in Users :
        /\ user_contexts[u] # Missing
        /\ user_contexts[u].emergency_status # "none"
        /\ user_contexts[u].overall_status = "emergency"
        /\ analyzer_data[u].health # NoRows
        /\ health_analyses[u] = Missing
        /\ safety_analyses[u] # Missing

\* C18: update() and get_user_status re-pull the context of a user only when
\* more than 60 seconds have passed since its last_update: on a context that
\* is at most 60 seconds old they leave every field as it was.
C18_FreshContextUntouched ==
    [][\A u \in Users, raising \in RaisingAgents :
          (/\ user_contexts[u] # Missing
           /\ now - user_contexts[u].last_update <= 1
           /\ (CoordinationUpdate(raising) \/ GetUserStatus(u, raising)))
          => user_contexts'[u] = user_contexts[u]]_vars

\* C18 witness: a context exactly 60 seconds old that a re-pull would change
\* (the Emergency Agent holds an emergency the context does not show), after
\* get_user_status has asked the agents (both analysis caches are filled)
C18_Witness ==
    \E u \in Users :
        /\ user_contexts[u] # Missing
        /\ now - user_contexts[u].last_update = 1
        /\ active_emergencies[u] # NoEmergency
        /\ user_contexts[u].emergency_status = "none"
        /\ health_analyses[u] # Missing
        /\ safety_analyses[u] # Missing

(***************************************************************************)
(* Claims about handle_incoming_data's errors (checked under SpecData)     *)
(***************************************************************************)
\* C19: handle_incoming_data never raises: a message without user_id, of an
\* unknown data type, for a domain agent that is not set, or on which the
\* routed agent raises, is answered with a status 'error' dict (every other
\* message with a dict too); a message without user_id creates no context.
C19_IncomingDataErrors ==
    [][\A user_id \in Users \cup {Absent}, data \in DataMessages, raises \in BOOLEAN :
          HandleIncomingDataCall(user_id, data, raises) =>
            /\ data_result' \in {"success", "error"}
            /\ ( \/ user_id = Absent
                 \/ data.type \notin {"health", "safety", "reminder", "social"}
                 \/ data.type \notin agents_set
                 \/ raises )
               => data_result' = "error"
            /\ user_id = Absent => user_contexts' = user_contexts]_vars

\* C19 witness: on a coordinator with no domain agent set, two calls were
\* answered, the last one with an error; a context exists (a call carried a
\* user_id and was refused for its agent) and no agent stored anything
C19_Witness ==
    \E u \in Users :
        /\ data_calls = 2
        /\ data_result = "error"
        /\ agents_set = {}
        /\ user_contexts[u] # Missing
        /\ health_analyses[u] = Missing

(***************************************************************************)
(* Claims about the personalized thresholds (checked under SpecThresholds) *)
(***************************************************************************)
\* C20: whatever the historical means of a user with at least 5 health rows,
\* the personalized thresholds keep to the safety bounds: heart rate max <=
\* 150 and min >= 50, systolic max <= 160 and min >= 85, diastolic max <= 100
\* and min >= 50, glucose max <= 180 and min >= 65, oxygen max = 100 and
\* min >= 90.
C20_ThresholdsWithinSafetyBounds ==
    \A u \in Users :
        health_means[u].samples >= 5 =>
            LET t == personalized_thresholds[u]
            IN /\ t.heart_rate.max <= 150 /\ t.heart_rate.min >= 50
               /\ t.blood_pressure_systolic.max <= 160
               /\ t.blood_pressure_systolic.min >= 85
               /\ t.blood_pressure_diastolic.max <= 100
               /\ t.blood_pressure_diastolic.min >= 50
               /\ t.glucose.max <= 180 /\ t.glucose.min >= 65
               /\ t.oxygen.max = 100 /\ t.oxygen.min >= 90

\* C20 witness: thresholds personalized from a mean heart rate of 200, a
\* mean systolic pressure of 150 and a mean glucose of 40: the heart-rate and
\* systolic ceilings and the glucose floor are what was stored
C20_Witness ==
    \E u \in Users :
        /\ health_means[u].samples >= 5
        /\ health_means[u].heart_rate = 2000
        /\ health_means[u].mean_systolic = 1500
        /\ health_means[u].glucose = 400
        /\ personalized_thresholds[u] # DefaultThresholds
        /\ personalized_thresholds[u].heart_rate.max = 150
        /\ personalized_thresholds[u].blood_pressure_systolic.max = 160
        /\ personalized_thresholds[u].glucose.min = 65

(***************************************************************************)
(* Claims about the Health Monitor's alerts (checked under SpecLevels)     *)
(***************************************************************************)
\* C21: an alert for a systolic pressure above the user's maximum is 'urgent'
\* exactly when the pressure is above 160 and 'warning' otherwise, and an
\* alert for an oxygen saturation below the user's minimum is 'urgent'
\* exactly when the saturation is below 92 and 'warning' otherwise (so at 160
\* and at 92 the alert is a 'warning').
C21_AlertLevelCutOffs ==
    \A u \in Users : \A i \in 1..Len(health_alert_history[u]) :
        LET alert == health_alert_history[u][i]
        IN /\ alert.type = "blood_pressure_systolic_high" =>
                 alert.level = (IF alert.value > 160 THEN "urgent" ELSE "warning")
           /\ alert.type = "oxygen_low" =>
                 alert.level = (IF alert.value < 92 THEN "urgent" ELSE "warning")

(***************************************************************************)
(* Claims about the agents' alert histories (checked under SpecCaps)       *)
(***************************************************************************)
\* the `cap` most recent entries of `all`, in arrival order
MostRecent(all, cap) ==
    LET n == Len(all)
        k == IF n > cap THEN cap ELSE n
    IN [i \in 1..k |-> all[n - k + i]]

MaxMessages == 2
MaxIterationsAfterExit == 2

\* what the loop does once `except Exception` has caught: sleep(1), then the
\* next pass of `while True`
LoopStopsAfterException == "stopped"
LoopAfterException == "backoff"

\* f"{self.name}_{int(time.time())}_{id(callback)}"
CallbackId(a, callback) == <<a, time_time, callback>>

\* send_message: the message is put on the agent's queue; with a callback,
\* the callback is registered under its id first (self.callbacks is a dict:
\* an id registered again replaces the entry).  after_error records whether
\* the loop had caught an exception before the put.  At most MaxMessages
\* messages are sent, to all agents together.
SendMessage(a, callback, raises) ==
    /\ \A b \in Agents : loop_pc[b] # "cancelled"
    /\ Cardinality(UNION {{<<b, m.id>> : m \in handled[b]} : b \in Agents})
         + Cardinality(UNION {{<<b, i>> : i \in 1..Len(message_queue[b])} : b \in Agents})
         < MaxMessages
    /\ callbacks' = IF callback = Absent THEN callbacks
                    ELSE [callbacks EXCEPT ![a] = @ \cup {CallbackId(a, callback)}]
    /\ message_queue' =
          [message_queue EXCEPT
             ![a] = Append(@, [id |-> Len(@) + Cardinality(handled[a]) + 1,
                               raises |-> raises,
                               after_error |-> \E m \in handled[a] : m.raises,
                               callback_id |-> IF callback = Absent THEN <<>>
                                               ELSE CallbackId(a, callback)])]
    /\ UNCHANGED <<now, emVars, last_update, user_contexts, analyzer_data, agentVars,
                   data_calls, agents_set, data_result, thVars, tracked_emergency, dbVars, dailyVars, running, loop_pc,
                   handled, iterations_after_exit, callback_calls, time_time>>

\* the drain of messages first..last of the queue, none of which raises:
\* after process_message, `if callback_id and callback_id in self.callbacks`
\* calls the callback with the response and deletes the entry
RECURSIVE Drained(_, _, _, _, _)
Drained(queue, first, last, registered, calls) ==
    IF first > last THEN [callbacks |-> registered, callback_calls |-> calls]
    ELSE LET callback_id == queue[first].callback_id
         IN IF callback_id # <<>> /\ callback_id \in registered
            THEN Drained(queue, first + 1, last, registered \ {callback_id},
                         Append(calls, [callback |-> callback_id[3],
                                        response |-> queue[first].id]))
            ELSE Drained(queue, first + 1, last, registered, calls)

\* one pass of `while True`: drain the queue, update() when it is due, then
\* sleep(0.1); an exception from either ends the pass in the handler.  The
\* drain takes every message off the queue, or those up to the first one
\* process_message raises on; a message process_message raises on gets no
\* callback.  The loop reads no shutdown flag.
LoopIteration(a, update_raises) ==
    /\ loop_pc[a] \in {"sleep", "backoff"}
    /\ running \/ iterations_after_exit[a] < MaxIterationsAfterExit
    /\ LET queue == message_queue[a]
           bad == {i \in 1..Len(queue) : queue[i].raises}
           n == IF bad = {} THEN Len(queue) ELSE CHOOSE i \in bad : \A j \in bad : i <= j
           failed == n > 0 /\ queue[n].raises
           drained == Drained(queue, 1, IF failed THEN n - 1 ELSE n,
                              callbacks[a], callback_calls[a])
       IN /\ handled' = [handled EXCEPT ![a] = @ \cup {queue[i] : i \in 1..n}]
          /\ callbacks' = [callbacks EXCEPT ![a] = drained.callbacks]
          /\ callback_calls' = [callback_calls EXCEPT ![a] = drained.callback_calls]
          /\ message_queue' = [message_queue EXCEPT ![a] = SubSeq(queue, n + 1, Len(queue))]
          /\ loop_pc' = [loop_pc EXCEPT
                           ![a] = IF failed \/ update_raises
                                  THEN LoopAfterException ELSE "sleep"]
    /\ iterations_after_exit' =
          IF running THEN iterations_after_exit
          ELSE [iterations_after_exit EXCEPT ![a] = @ + 1]
    /\ UNCHANGED <<now, emVars, last_update, user_contexts, analyzer_data, agentVars,
                   data_calls, agents_set, data_result, thVars, tracked_emergency, dbVars, dailyVars, running,
                   time_time>>

\* app.handle_exit, the SIGINT/SIGTERM handler
HandleExit ==
    /\ running
    /\ running' = FALSE
    /\ UNCHANGED <<now, emVars, last_update, user_contexts, analyzer_data, agentVars,
                   data_calls, agents_set, data_result, thVars, tracked_emergency, dbVars, dailyVars, loop_pc, message_queue,
                   handled, iterations_after_exit, callbacks, callback_calls, time_time>>

\* main wakes from sleep(1), leaves `while running`, runs shutdown_system,
\* which stops no agent, and returns; asyncio.run then cancels the tasks
\* that are left, and each loop ends with CancelledError in its sleep
MainExit ==
    /\ ~running
    /\ \E a \in Agents : loop_pc[a] # "cancelled"
    /\ loop_pc' = [a \in Agents |-> "cancelled"]
    /\ UNCHANGED <<now, emVars, last_update, user_contexts, analyzer_data, agentVars,
                   data_calls, agents_set, data_result, thVars, tracked_emergency, dbVars, dailyVars, running, message_queue,
                   handled, iterations_after_exit, callbacks, callback_calls, time_time>>

NextLoop ==
    \/ \E a \in Agents, raises \in BOOLEAN : SendMessage(a, Absent, raises)
    \/ \E a \in Agents, update_raises \in BOOLEAN : LoopIteration(a, update_raises)
    \/ HandleExit
    \/ MainExit

\* the event loop runs every task that is ready, and main leaves its loop
\* within a second of the flag; nothing obliges a signal or a message to come
SpecLoop ==
    /\ InitEm
    /\ [][NextLoop]_vars
    /\ \A a \in Agents : WF_vars(\E update_raises \in BOOLEAN : LoopIteration(a, update_raises))
    /\ WF_vars(MainExit)

\* C23: once handle_exit has set the flag, a loop completes at most the pass
\* it is in and then exits; it begins no second pass
C23_LoopsExitOnShutdown ==
    \A a \in Agents : iterations_after_exit[a] <= 1

\* C24: an exception in process_message or update() does not end the loop
\* (only the cancellation at shutdown does), and a message that is on the
\* queue once the loop has caught an exception is still handed to
\* process_message, unless the shutdown cancels the loop first
C24_LoopSurvivesExceptions ==
    /\ [](\A a \in Agents : loop_pc[a] \in {"sleep", "backoff", "cancelled"})
    /\ [](\A a \in Agents : loop_pc[a] = "cancelled" => ~running)
    /\ \A a \in Agents : \A id \in 1..MaxMessages :
          ((\E m \in handled[a] : m.raises)
               /\ (\E i \in 1..Len(message_queue[a]) : message_queue[a][i].id = id))
            ~> ((\E m \in handled[a] : m.id = id) \/ loop_pc[a] = "cancelled")

\* a loop that caught an exception from its first message and has since
\* handled a message put after it, while the system is still running
C24_Witness ==
    /\ running
    /\ \E a \in Agents :
          /\ \E m \in handled[a] : m.id = 1 /\ m.raises
          /\ \E m \in handled[a] : m.id = 2 /\ m.after_error /\ ~m.raises


(***************************************************************************)
(* The Daily Assistant's reminders.  A scheduled_time is a string in the   *)
(* code; here it is a number of minutes, and a negative number stands for  *)
(* a string that is no ISO time and sorts before every ISO time ("", or    *)
(* "10am").  A reminder's id tells the dicts of one list apart.            *)
(***************************************************************************)
MaxReminders == 3

\* datetime.fromisoformat(scheduled_time) returns instead of raising
fromisoformat(scheduled_time) == scheduled_time >= 0

\* list.sort(key=lambda x: x["scheduled_time"]), a stable sort
SortByScheduledTime(s) ==
    LET rank(i) == Cardinality({j \in 1..Len(s) :
                       \/ s[j].scheduled_time < s[i].scheduled_time
                       \/ s[j].scheduled_time = s[i].scheduled_time /\ j < i}) + 1
    IN [r \in 1..Len(s) |-> s[CHOOSE i \in 1..Len(s) : rank(i) = r]]

\* the positions of all reminders: <<k, i>> is reminder i of user k
ReminderPositions ==
    {q \in (DOMAIN DailyUsers) \X (1..MaxReminders) : q[2] <= Len(upcoming_reminders[q[1]])}

\* process_reminder_data with a new_reminder: its scheduled_time is stored
\* as it came, and the list is sorted again
NewReminder(k, scheduled_time) ==
    /\ Cardinality(ReminderPositions) < MaxReminders
    /\ upcoming_reminders' =
          [upcoming_reminders EXCEPT
             ![k] = SortByScheduledTime(
                       Append(@, [id |-> Len(@) + 1,
                                  scheduled_time |-> scheduled_time,
                                  sent |-> FALSE]))]
    /\ UNCHANGED <<now, emVars, last_update, user_contexts, analyzer_data, agentVars,
                   data_calls, agents_set, data_result, thVars, tracked_emergency, dbVars, loopVars,
                   reminder_rows, daily_update_result, reminder_user_data>>

\* add_reminder: a scheduled_time that is no ISO time is answered with an
\* error and nothing is stored
AddReminder(k, scheduled_time) ==
    /\ Cardinality(ReminderPositions) < MaxReminders
    /\ upcoming_reminders' =
          IF fromisoformat(scheduled_time)
          THEN [upcoming_reminders EXCEPT
                  ![k] = SortByScheduledTime(
                            Append(@, [id |-> Len(@) + 1,
                                       scheduled_time |-> scheduled_time,
                                       sent |-> FALSE]))]
          ELSE upcoming_reminders
    /\ UNCHANGED <<now, emVars, last_update, user_contexts, analyzer_data, agentVars,
                   data_calls, agents_set, data_result, thVars, tracked_emergency, dbVars, loopVars,
                   reminder_rows, daily_update_result, reminder_user_data>>

\* max_delay = 60 unless the preferences hold the reminder's type
DefaultMaxDelay == 60

\* (now - sent_time).total_seconds() / 60 > max_delay
OverdueFrom(elapsed, max_delay) == elapsed >= max_delay
Overdue(elapsed, max_delay) == elapsed > max_delay

\* _check_overdue_reminders.  t is `now`, read when the function starts;
\* later is datetime.now() as read again for sent_time, inside the loop
RECURSIVE OverdueAlerts(_, _, _, _, _)
OverdueAlerts(reminder_history, idx, max_delay, t, later) ==
    IF idx > Len(reminder_history) THEN <<>>
    ELSE (IF /\ reminder_history[idx].sent = "Yes"
             /\ reminder_history[idx].acknowledged # "Yes"
             /\ Overdue(t - later, max_delay)
          THEN <<[timestamp |-> t, level |-> "info", type |-> "reminder_overdue",
                  reminder_id |-> idx - 1, delay_minutes |-> t - later]>>
          ELSE <<>>)
         \o OverdueAlerts(reminder_history, idx + 1, max_delay, t, later)

check_overdue_reminders(user_data, t, later) ==
    OverdueAlerts(user_data.reminder_history, 1,
                  IF user_data.max_delay = NoValue THEN DefaultMaxDelay
                  ELSE user_data.max_delay,
                  t, later)

\* update(): the users in the order of user_data, the reminders of each in
\* the order of the list.  fromisoformat is called on every reminder, outside
\* any try: at the first reminder it raises on, update() ends, after the
\* reminders before it were marked sent and stored.  Every reminder, sent or
\* not, goes to remaining_reminders, which becomes the list.  With the
\* default configuration (no reminder_types) _generate_additional_reminders
\* adds nothing and sorts the list.  _check_overdue_reminders closes the
\* pass over a user; its second reading of the clock is not before the first.
DailyUpdate ==
    LET bad(k) == {i \in 1..Len(upcoming_reminders[k]) :
                      ~fromisoformat(upcoming_reminders[k][i].scheduled_time)}
        failing == {k \in DOMAIN DailyUsers : bad(k) # {}}
        stop == IF failing = {} THEN 0
                ELSE CHOOSE k \in failing : \A j \in failing : k <= j
        first_bad == CHOOSE i \in bad(stop) : \A j \in bad(stop) : i <= j
        reached(k, i) == stop = 0 \/ k < stop \/ (k = stop /\ i < first_bad)
        send(k, i) == /\ reached(k, i)
                      /\ upcoming_reminders[k][i].scheduled_time <= now
                      /\ ~upcoming_reminders[k][i].sent
        remaining_reminders(k) ==
            [i \in 1..Len(upcoming_reminders[k]) |->
                IF send(k, i) THEN [upcoming_reminders[k][i] EXCEPT !.sent = TRUE]
                ELSE upcoming_reminders[k][i]]
    IN /\ upcoming_reminders' =
             [k \in DOMAIN DailyUsers |->
                 IF stop = 0 \/ k < stop
                 THEN SortByScheduledTime(remaining_reminders(k))
                 ELSE remaining_reminders(k)]
       /\ reminder_rows' = reminder_rows \cup
             {<<DailyUsers[q[1]], upcoming_reminders[q[1]][q[2]].id>> :
                 q \in {p \in ReminderPositions : send(p[1], p[2])}}
       /\ daily_update_result' = IF stop = 0 THEN "ok" ELSE "raised"
       /\ \E later \in now..(now + 1) :
             reminder_user_data' =
                [k \in DOMAIN DailyUsers |->
                    IF stop = 0 \/ k < stop
                    THEN [reminder_user_data[k] EXCEPT
                            !.alert_history =
                               LastN(@ \o check_overdue_reminders(reminder_user_data[k],
                                                                  now, later),
                                     AlertHistoryCap)]
                    ELSE reminder_user_data[k]]
       /\ UNCHANGED <<now, emVars, last_update, user_contexts, analyzer_data, agentVars,
                   data_calls, agents_set, data_result, thVars, tracked_emergency, dbVars, loopVars>>

NextDaily ==
    \/ \E k \in DOMAIN DailyUsers, scheduled_time \in -1..MaxTime :
          NewReminder(k, scheduled_time)
    \/ \E k \in DOMAIN DailyUsers, scheduled_time \in -1..MaxTime :
          AddReminder(k, scheduled_time)
    \/ DailyUpdate
    \/ Tick

SpecDaily == InitEm /\ [][NextDaily]_vars

\* C25: upcoming_reminders holds only reminders that were not sent yet: a
\* reminder that update() has sent is no longer in the list
C25_UpcomingHoldsUnsentOnly ==
    \A q \in ReminderPositions : ~upcoming_reminders[q[1]][q[2]].sent

\* C26: a reminder whose scheduled_time cannot be parsed never makes update()
\* fail, and every update() sends each due reminder with a parseable
\* scheduled_time, whichever user it belongs to and whatever else is listed
C26_UnparseableReminderSkipped ==
    [][DailyUpdate =>
          /\ daily_update_result' # "raised"
          /\ \A q \in ReminderPositions :
                LET reminder == upcoming_reminders[q[1]][q[2]]
                IN fromisoformat(reminder.scheduled_time) /\ reminder.scheduled_time <= now
                      => <<DailyUsers[q[1]], reminder.id>> \in reminder_rows']_vars


(***************************************************************************)
(* The Emergency Agent and the store.  `db` is created with no table;      *)
(* initialize_database, which app.initialize_system calls, creates them.   *)
(***************************************************************************)
InitializeDatabase ==
    /\ db_tables # DatabaseTables
    /\ db_tables' = DatabaseTables
    /\ UNCHANGED <<now, emVars, last_update, user_contexts, analyzer_data, agentVars,
                   data_calls, agents_set, data_result, thVars, tracked_emergency, dailyVars, loopVars,
                   insert_errors>>

NextStore ==
    \/ \E u \in Users, data \in EmergencyInputs :
          HandleEmergency(u, data.type, data.details, data.location)
    \/ InitializeDatabase
    \/ EmTick

\* the agents are constructed, initialize_database has not run yet
InitStore ==
    /\ now = 0
    /\ EmInit
    /\ AgentsInit
    /\ user_contexts = [u \in Users |-> Missing]
    /\ analyzer_data = [u \in Users |-> UnknownUser]
    /\ data_calls = 0
    /\ agents_set = DomainAgents
    /\ data_result = "none"
    /\ db_tables = {}
    /\ insert_errors = 0

SpecStore == InitStore /\ [][NextStore]_vars

\* C27: a handle_emergency call during which the store's insert fails still
\* installs the new emergency as the user's active emergency and still
\* records its initial caregiver notification
C27_EmergencyStateWithoutStore ==
    [][\A u \in Users :
          insert_errors' > insert_errors /\ active_emergencies'[u] # active_emergencies[u]
             => /\ active_emergencies'[u] # NoEmergency
                /\ active_emergencies'[u].created_at = now
                /\ Len(caregiver_notifications'[u]) > Len(caregiver_notifications[u])
                /\ caregiver_notifications'[u][Len(caregiver_notifications'[u])].emergency_id
                      = active_emergencies'[u].id]_vars


\* C28: a handle_incoming_data call of type D leaves the state of every
\* domain agent other than D's as it was, and leaves every domain status of
\* the user's context other than D's as it was (the context being the one
\* the call begins with, created first when the user had none); the agent
\* for D holds its analysis afterwards
C28_DispatchFrame ==
    [][\A u \in Users : \A data \in DataMessages :
          data.type \in DomainAgents /\ HandleIncomingData(u, data) =>
             LET before == ContextOf(user_contexts, analyzer_data[u], u, now)
                 after  == user_contexts'[u]
             IN /\ data.type # "health" =>
                     /\ after.health_status = before.health_status
                     /\ health_analyses' = health_analyses
                     /\ health_alert_history' = health_alert_history
                /\ data.type # "safety" =>
                     /\ after.safety_status = before.safety_status
                     /\ safety_analyses' = safety_analyses
                     /\ safety_alert_history' = safety_alert_history
                /\ data.type # "reminder" =>
                     after.reminder_status = before.reminder_status
                /\ data.type # "social" =>
                     /\ after.social_status = before.social_status
                     /\ social_analyses' = social_analyses
                     /\ social_alert_history' = social_alert_history
                /\ data.type = "health" => health_analyses'[u] # Missing
                /\ data.type = "safety" => safety_analyses'[u] # Missing
                /\ data.type = "social" => social_analyses'[u] # Missing]_vars

\* a context a safety message has put its alerts into, the health and the
\* reminder status known and as the context was created with, and no other
\* domain agent having been given anything
C28_Witness ==
    \E u \in Users :
       LET created == initialize_user_context(analyzer_data[u], now)
       IN /\ user_contexts[u] # Missing
          /\ data_result = "success"
          /\ safety_analyses[u] # Missing
          /\ health_analyses[u] = Missing
          /\ social_analyses[u] = Missing
          /\ safety_alert_history[u] # <<>>
          /\ user_contexts[u].alerts # <<>>
          /\ user_contexts[u].health_status = created.health_status
          /\ user_contexts[u].health_status # "unknown"
          /\ user_contexts[u].reminder_status = created.reminder_status
          /\ user_contexts[u].reminder_status # "unknown"


\* C29: while a user's emergency of a type stays active, no update tick and
\* no handle_emergency call of the same type lowers its escalation_level
C29_EscalationNeverDecreases ==
    [][\A u \in Users :
          /\ active_emergencies[u] # NoEmergency
          /\ ~active_emergencies[u].resolved
          /\ active_emergencies'[u] # NoEmergency
          /\ ~active_emergencies'[u].resolved
          /\ active_emergencies'[u].type = active_emergencies[u].type
          => active_emergencies'[u].escalation_level
                >= active_emergencies[u].escalation_level]_vars


(***************************************************************************)
(* The escalation of one emergency over unbounded time.  The emergency is  *)
(* kept with its times counted back from now (0 is now, -3 is three        *)
(* minutes ago); a time further back than any comparison of the code can   *)
(* tell apart is kept at that distance.  services_notified says whether an *)
(* emergency_services_notification row was stored for it.                  *)
(***************************************************************************)

\* handle_emergency, for the user of the tracked emergency
TrackedHandleEmergency(data) ==
    LET old       == tracked_emergency.emergency
        emergency == [type |-> data.type, details |-> data.details, created_at |-> 0,
                      last_escalation |-> 0, escalation_level |-> 1]
        installed == InstalledEmergency(old, emergency)
    IN /\ tracked_emergency' =
             [emergency |-> InitialResponseEmergency(installed, 0),
              services_notified |->
                 old # NoEmergency /\ old.type = data.type
                    /\ tracked_emergency.services_notified]
       /\ UNCHANGED <<now, emVars, last_update, user_contexts, analyzer_data, agentVars,
                      data_calls, agents_set, data_result, thVars, dailyVars, loopVars,
                      dbVars>>

\* a minute passes and update() runs: _check_emergency_escalation
TrackedUpdate ==
    LET old  == tracked_emergency.emergency
        aged == [old EXCEPT !.created_at = PyMax(@ - 1, 0 - 2 * EscalationMinutes),
                            !.last_escalation = PyMax(@ - 1, 0 - EscalationMinutes)]
        due  == EscalationDue(aged, 0)
    IN /\ old # NoEmergency
       /\ tracked_emergency' =
             IF due = 0 THEN [tracked_emergency EXCEPT !.emergency = aged]
             ELSE [emergency |-> Escalated(aged, due, 0),
                   services_notified |->
                      \/ tracked_emergency.services_notified
                      \/ EscalationLevels(due) = "notify_emergency_services"]
       /\ UNCHANGED <<now, emVars, last_update, user_contexts, analyzer_data, agentVars,
                      data_calls, agents_set, data_result, thVars, dailyVars, loopVars,
                      dbVars>>

NextEscalation ==
    \/ \E data \in EmergencyInputs : TrackedHandleEmergency(data)
    \/ TrackedUpdate

\* the update tick keeps firing; nothing obliges a handle_emergency call to
\* come or to stay away, and nothing resolves the emergency
SpecEscalation == InitEm /\ [][NextEscalation]_vars /\ WF_vars(TrackedUpdate)

\* C30: an emergency that stays active and is not superseded by another type
\* reaches escalation level 3 with an emergency-services notification stored
C30_ReachesEmergencyServices ==
    \A type \in {"fall", "health"} :
       (tracked_emergency.emergency # NoEmergency /\ tracked_emergency.emergency.type = type)
          ~> \/ tracked_emergency.emergency = NoEmergency
             \/ tracked_emergency.emergency.type # type
             \/ /\ tracked_emergency.emergency.escalation_level = 3
                /\ tracked_emergency.services_notified

(***************************************************************************)
(* The context refresh over unbounded time.  Times are kept relative to    *)
(* now, which stays 0: a minute that passes moves the context's            *)
(* last_update one back, down to the age from which the context is stale.  *)
(* The refresh reads no other time.  The analyzer has no rows for the     *)
(* user, so a reading in range raises no alert.                            *)
(***************************************************************************)
\* the readings that keep arriving: vital signs in range, no fall
RoutineReadings ==
    { [type |-> "health", data |-> [heart_rate |-> 72, glucose |-> 100, oxygen |-> 98]],
      [type |-> "safety", data |-> [fall_detected |-> "No", location |-> "Bedroom",
                                    impact_force |-> Absent,
                                    impact_force_level |-> Absent]] }

\* a reading of the user's, routed by handle_incoming_data
ReadingArrives(u, data) ==
    /\ RouteIncomingData(u, data)
    /\ UNCHANGED data_calls

\* a minute passes
MinutePasses ==
    /\ \E u \in Users : user_contexts[u] # Missing
    /\ user_contexts' =
          [u \in Users |->
              IF user_contexts[u] = Missing THEN Missing
              ELSE [user_contexts[u] EXCEPT
                      !.last_update = PyMax(@ - 1, 0 - (ContextMaxAge + 1))]]
    /\ UNCHANGED <<now, emVars, last_update, analyzer_data, agentVars, data_calls,
                   agents_set, data_result, thVars, tracked_emergency, dbVars, dailyVars,
                   loopVars>>

NextRefresh ==
    \/ \E u \in Users, data \in EmergencyInputs :
          HandleEmergency(u, data.type, data.details, data.location)
    \/ \E u \in Users, data \in RoutineReadings : ReadingArrives(u, data)
    \/ MinutePasses
    \/ \E raising \in RaisingAgents : CoordinationUpdate(raising)

\* time passes and the coordinator's update() keeps running; nothing obliges
\* a reading or an emergency to come or to stay away
SpecRefresh ==
    /\ InitEm
    /\ [][NextRefresh]_vars
    /\ WF_vars(MinutePasses)
    /\ WF_vars(\E raising \in RaisingAgents : CoordinationUpdate(raising))

\* C31: while the Emergency Agent holds an emergency of some type for a user
\* who has a context, the context's emergency_status eventually is that type
\* and its overall_status 'emergency', whatever readings keep arriving
C31_EmergencyReachesContext ==
    \A u \in Users : \A type \in {"fall", "health"} :
       ( /\ active_emergencies[u] # NoEmergency
         /\ active_emergencies[u].type = type
         /\ user_contexts[u] # Missing )
          ~> \/ active_emergencies[u] = NoEmergency
             \/ active_emergencies[u].type # type
             \/ /\ user_contexts[u] # Missing
                /\ user_contexts[u].emergency_status = type
                /\ user_contexts[u].overall_status = "emergency"

(***************************************************************************)
(* Urgent alerts that do not come from a health or safety reading: social  *)
(* isolation found by _process_social_data or by the Social Engagement     *)
(* agent's update(), excessive inactivity found by the Safety Guardian's   *)
(* update().  _report_alerts of every agent is `pass`.  Time is relative   *)
(* to now, as above: alerts carry the time 0 whenever they are raised, so  *)
(* alerts of one kind raised minutes apart are one alert to the merge.     *)
(***************************************************************************)
\* the alerts in the agents' histories of a user
RaisedAlerts(u) ==
    Len(health_alert_history[u]) + Len(safety_alert_history[u])
       + Len(social_alert_history[u])

\* how long the user has been without movement, against the threshold of the
\* last location: not beyond it, beyond it, beyond twice the threshold
Inactivity == {"none", "warning", "urgent"}

\* _check_inactivity
check_inactivity(inactivity, last_location, t) ==
    IF inactivity = "none" THEN <<>>
    ELSE <<SafetyAlert(t, inactivity, "excessive_inactivity", last_location, Absent)>>

\* SafetyGuardianAgent.update(), for a user whose analysis is older than the
\* update interval
SafetyUpdate(u, inactivity) ==
    LET analysis == analyze_safety_data(analyzer_data[u])
    IN /\ analysis.status = "success"
       /\ safety_analyses' = [safety_analyses EXCEPT ![u] = analysis]
       /\ safety_alert_history' =
             [safety_alert_history EXCEPT
                ![u] = LastN(@ \o check_inactivity(inactivity, analysis.current_location,
                                                   now),
                             AlertHistoryCap)]
       /\ UNCHANGED <<now, emVars, last_update, user_contexts, analyzer_data,
                      health_analyses, health_alert_history, social_analyses,
                      social_alert_history, data_calls, agents_set, data_result, thVars,
                      tracked_emergency, dbVars, dailyVars, loopVars>>

\* the readings that make the coordinator call the Emergency Agent: a glucose
\* of 60, a fall
EmergencyRoutes ==
    { [type |-> "health", data |-> [heart_rate |-> 72, glucose |-> 60, oxygen |-> 98]],
      [type |-> "safety", data |-> [fall_detected |-> "Yes", location |-> "Bathroom",
                                    impact_force |-> "High",
                                    impact_force_level |-> Absent]] }

\* the updates run while the readings routed and the alerts raised for the
\* user are fewer than MaxDataCalls together
NextUrgent ==
    \/ \E u \in Users, data \in EmergencyRoutes : HandleIncomingData(u, data)
    \/ \E u \in Users, outcome \in IsolationOutcomes :
          HandleIncomingData(u, [type |-> "social", data |-> outcome])
    \/ \E agent \in {"health", "social"}, u \in Users, outcome \in IsolationOutcomes :
          data_calls + RaisedAlerts(u) < MaxDataCalls /\ AgentUpdate(agent, u, outcome)
    \/ \E u \in Users, inactivity \in Inactivity :
          data_calls + RaisedAlerts(u) < MaxDataCalls /\ SafetyUpdate(u, inactivity)
    \/ \E raising \in RaisingAgents : CoordinationUpdate(raising)
    \/ MinutePasses

\* a user whose latest rows show a systolic pressure of 165, so that the
\* Health Monitor's update() raises an urgent alert as well
InitUrgent ==
    /\ now = 0
    /\ EmInit
    /\ AgentsInit
    /\ DbInit
    /\ user_contexts = [u \in Users |-> Missing]
    /\ analyzer_data = [u \in Users |->
          [health    |-> HealthRows(2, 72, 165, 85, 150, 98),
           safety    |-> SafetyRows(0, "Living Room", FALSE, TRUE),
           reminders |-> ReminderRows(0)]]
    /\ data_calls = 0
    /\ agents_set = DomainAgents
    /\ data_result = "none"

SpecUrgent == InitUrgent /\ [][NextUrgent]_vars

\* every alert of the list is in the context's alert list
AllMerged(alerts, context) ==
    \A i \in 1..Len(alerts) : AlertIn(alerts[i], context.alerts)

\* C32: the Emergency Agent's state changes only in a step that routes a
\* health or safety reading; a social reading merges its alerts, urgent ones
\* included, into the context and leaves the Emergency Agent alone; so does
\* the refresh of a stale context, for the alerts the agents' update() raised
C32_EmergencyOnlyFromReadings ==
    [][ /\ emVars' # emVars
           => \E u \in Users, data \in EmergencyRoutes : HandleIncomingData(u, data)
        /\ \A u \in Users, outcome \in IsolationOutcomes :
              ( /\ HandleIncomingData(u, [type |-> "social", data |-> outcome])
                /\ analyze_social_data(outcome).status = "success" )
              => /\ AllMerged(check_social_isolation(outcome, now), user_contexts'[u])
                 /\ UNCHANGED emVars
        /\ \A u \in Users :
              ( /\ user_contexts[u] # Missing
                /\ Stale(user_contexts[u], now)
                /\ CoordinationUpdate("none") )
              => /\ LET status == get_safety_status(safety_analyses[u],
                                                    safety_alert_history[u],
                                                    analyzer_data[u])
                    IN status.status = "success"
                          => AllMerged(status.alerts, user_contexts'[u])
                 /\ LET status == get_social_status(social_analyses[u],
                                                    social_alert_history[u])
                    IN status.status = "success"
                          => AllMerged(status.alerts, user_contexts'[u])
                 /\ UNCHANGED emVars ]_vars

\* urgent isolation and inactivity alerts are in the context of a user for
\* whom the Emergency Agent has nothing
C32_Witness ==
    \E u \in Users :
       /\ user_contexts[u] # Missing
       /\ \E i, j \in 1..Len(user_contexts[u].alerts) :
             /\ user_contexts[u].alerts[i].type = "social_isolation"
             /\ user_contexts[u].alerts[i].level = "urgent"
             /\ user_contexts[u].alerts[j].type = "excessive_inactivity"
             /\ user_contexts[u].alerts[j].level = "urgent"
       /\ active_emergencies[u] = NoEmergency
       /\ emergency_history[u] = <<>>
       /\ caregiver_notifications[u] = <<>>

(***************************************************************************)
(* Claims about resolve_alert with a real id (Spec)                        *)
(***************************************************************************)
\* ids a caller may ask resolve_alert to resolve
AlertIds == {"A1", "fall_detected", "glucose_low", "social_isolation"}

C34_ResolvedOnlyInHistory ==
    \A u \in Users :
       /\ \/ active_emergencies[u] = NoEmergency
          \/ ~active_emergencies[u].resolved
       /\ \A i \in 1..Len(emergency_history[u]) :
             /\ emergency_history[u][i].resolved
             /\ emergency_history[u][i].resolution_time # NoTime

\* an emergency is active while the history holds a manually resolved one
C34_Witness ==
    \E u \in Users :
       /\ active_emergencies[u] # NoEmergency
       /\ \E i \in 1..Len(emergency_history[u]) :
             emergency_history[u][i].resolution_details = "Manually resolved"

(***************************************************************************)
(* Claims about the order of the personalized thresholds (SpecThresholds)  *)
(***************************************************************************)
\* C35: whatever the historical means, the personalized thresholds of every
\* metric satisfy min <= max
C35_ThresholdsOrdered ==
    \A u \in Users :
       LET t == personalized_thresholds[u]
       IN /\ t.heart_rate.min <= t.heart_rate.max
          /\ t.blood_pressure_systolic.min <= t.blood_pressure_systolic.max
          /\ t.blood_pressure_diastolic.min <= t.blood_pressure_diastolic.max
          /\ t.glucose.min <= t.glucose.max
          /\ t.oxygen.min <= t.oxygen.max

(***************************************************************************)
(* Claims about a user without data (SpecStatus)                           *)
(***************************************************************************)
\* C36: with emergency_status 'none', _determine_overall_status returns
\* 'normal' when the four domain statuses are all 'unknown', and returns
\* 'unknown' only when some domain status is none of normal, attention,
\* alert and unknown
C36_UnknownOnlyForStrangeStatus ==
    \A u \in Users :
       ( /\ user_contexts[u] # Missing
         /\ user_contexts[u].overall_status # Absent
         /\ user_contexts[u].emergency_status = "none" )
       => LET context  == user_contexts[u]
              statuses == {context.health_status, context.safety_status,
                           context.reminder_status, context.social_status}
          IN /\ statuses = {"unknown"} => context.overall_status = "normal"
             /\ context.overall_status = "unknown"
                  => statuses \ {"normal", "attention", "alert", "unknown"} # {}

\* the rule has been applied to a context whose statuses are all unknown
C36_Witness ==
    \E u \in Users :
       /\ user_contexts[u] # Missing
       /\ user_contexts[u].emergency_status = "none"
       /\ user_contexts[u].health_status = "unknown"
       /\ user_contexts[u].safety_status = "unknown"
       /\ user_contexts[u].reminder_status = "unknown"
       /\ user_contexts[u].social_status = "unknown"
       /\ user_contexts[u].overall_status = "normal"

(***************************************************************************)
(* The Daily Assistant's overdue check, for users whose reminder rows the   *)
(* analyzer holds.  A row keeps whether it was sent and acknowledged; the   *)
(* rows share one reminder type and one time of day, later today, for      *)
(* which _generate_upcoming_reminders has listed one reminder.             *)
(***************************************************************************)
ReminderRow(sent, acknowledged) == [sent |-> sent, acknowledged |-> acknowledged]

\* the reminder rows of a user: none; one sent and not acknowledged; three
ReminderHistories ==
    { <<>>,
      <<ReminderRow("Yes", "No")>>,
      <<ReminderRow("No", "No"), ReminderRow("Yes", "Yes"), ReminderRow("Yes", "No")>> }

\* the max_delay a caller sets for the reminder type
MaxDelays == {0, 1, DefaultMaxDelay}

\* DailyAssistantAgent after _initialize_user_data
InitOverdue ==
    /\ now = 0
    /\ EmInit
    /\ LoopInit
    /\ DomainAgentsInit
    /\ DbInit
    /\ user_contexts = [u \in Users |-> Missing]
    /\ analyzer_data = [u \in Users |-> UnknownUser]
    /\ data_calls = 0
    /\ agents_set = DomainAgents
    /\ data_result = "none"
    /\ reminder_rows = {}
    /\ daily_update_result = "none"
    /\ \E histories \in [DOMAIN DailyUsers -> ReminderHistories] :
          /\ reminder_user_data =
                [k \in DOMAIN DailyUsers |->
                    [NoReminderData EXCEPT !.reminder_history = histories[k]]]
          /\ upcoming_reminders =
                [k \in DOMAIN DailyUsers |->
                    IF histories[k] = <<>> THEN <<>>
                    ELSE <<[id |-> 1, scheduled_time |-> MaxTime + 1, sent |-> FALSE]>>]

\* update_reminder_preferences: the max_delay of the reminder type
UpdateReminderPreferences(k, max_delay) ==
    /\ reminder_user_data' = [reminder_user_data EXCEPT ![k].max_delay = max_delay]
    /\ UNCHANGED <<now, emVars, last_update, user_contexts, analyzer_data, agentVars,
                   data_calls, agents_set, data_result, thVars, tracked_emergency, dbVars,
                   loopVars, upcoming_reminders, reminder_rows, daily_update_result>>

\* process_reminder_data with an acknowledgment of reminder_id
AcknowledgeReminder(k, reminder_id) ==
    /\ reminder_user_data' =
          [reminder_user_data EXCEPT
             ![k].reminder_history =
                [idx \in 1..Len(@) |->
                    IF idx - 1 = reminder_id THEN [@[idx] EXCEPT !.acknowledged = "Yes"]
                    ELSE @[idx]]]
    /\ UNCHANGED <<now, emVars, last_update, user_contexts, analyzer_data, agentVars,
                   data_calls, agents_set, data_result, thVars, tracked_emergency, dbVars,
                   loopVars, upcoming_reminders, reminder_rows, daily_update_result>>

NextOverdue ==
    \/ \E k \in DOMAIN DailyUsers, max_delay \in MaxDelays :
          UpdateReminderPreferences(k, max_delay)
    \/ \E k \in DOMAIN DailyUsers, reminder_id \in 0..2 : AcknowledgeReminder(k, reminder_id)
    \/ DailyUpdate
    \/ Tick

SpecOverdue == InitOverdue /\ [][NextOverdue]_vars

MaxSeconds == 1

\* the functions a caller passes as callback
Callbacks == {"on_response", "on_other_response"}

\* the clock reaches the next second
SecondPasses ==
    /\ time_time < MaxSeconds
    /\ time_time' = time_time + 1
    /\ UNCHANGED <<now, emVars, last_update, user_contexts, analyzer_data, agentVars,
                   data_calls, agents_set, data_result, thVars, tracked_emergency, dbVars,
                   dailyVars, running, loop_pc, message_queue, handled,
                   iterations_after_exit, callbacks, callback_calls>>

NextCallbacks ==
    \/ \E a \in Agents, callback \in Callbacks, raises \in BOOLEAN :
          SendMessage(a, callback, raises)
    \/ \E a \in Agents, update_raises \in BOOLEAN : LoopIteration(a, update_raises)
    \/ SecondPasses

SpecCallbacks == InitEm /\ [][NextCallbacks]_vars

\* C38: a message sent with a callback that process_message has been called
\* with has had its callback called exactly once, with the response for that
\* message, and its callback is no longer registered; whatever the
\* interleaving of the sends, and also when process_message raises
C38_CallbackExactlyOnce ==
    \A a \in Agents : \A m \in handled[a] :
       m.callback_id # <<>>
          => /\ Cardinality({i \in 1..Len(callback_calls[a]) :
                               /\ callback_calls[a][i].response = m.id
                               /\ callback_calls[a][i].callback = m.callback_id[3]}) = 1
             /\ m.callback_id \notin callbacks[a]

====
